---- MODULE Spec2Model ----
(***************************************************************************)
(* A model of the SVG path to CSS clip-path converter:                     *)
(*   src/src/frontend/src/lib/pathConverter.ts (lines 1-723: tokenizer,    *)
(*   interpreter, flatteners, normalizer and the two entry points) and     *)
(*   the consumer ConverterSection / InputSection (src/unnamed/part_002,   *)
(*   part_003).                                                            *)
(*                                                                         *)
(* Text is a sequence of one-character strings.  Finite numbers are exact  *)
(* rationals <<n, d>> (d > 0, lowest terms), with Infinity, -Infinity and  *)
(* NaN beside them; the rounding of finite doubles is left out, and the    *)
(* inputs explored keep to small literals and segment counts.  An arc of   *)
(* non-zero radii is flattened to samples of its chord, or to NaN points   *)
(* when its end points coincide or one of its operands is not finite.      *)
(***************************************************************************)
EXTENDS Integers, Sequences, FiniteSets, TLC

(***************************************************************************)
(* Characters                                                              *)
(***************************************************************************)
WhiteSpace == {" ", "\t", "\n", "\r"}

\* Separators without the comma.
Separators_NoComma == WhiteSpace

Separators == WhiteSpace \cup {","}

\* The command letters with a letter that is none.
CommandLetters_WithX ==
  {"M", "m", "L", "l", "H", "h", "V", "v", "C", "c",
   "S", "s", "Q", "q", "T", "t", "A", "a", "Z", "z", "X"}

CommandLetters ==
  {"M", "m", "L", "l", "H", "h", "V", "v", "C", "c",
   "S", "s", "Q", "q", "T", "t", "A", "a", "Z", "z"}

DigitChars == <<"0", "1", "2", "3", "4", "5", "6", "7", "8", "9">>

Digits == {DigitChars[k] : k \in 1..10}

Signs == {"+", "-"}

NumberStart == Digits \cup Signs \cup {"."}

DigitVal(c) == (CHOOSE k \in 1..10 : DigitChars[k] = c) - 1

RECURSIVE Join(_)
\* The text of a character sequence, as one string.
Join(s) == IF s = <<>> THEN "" ELSE Head(s) \o Join(Tail(s))

RECURSIVE TrimStart(_)
TrimStart(s) ==
  IF s # <<>> /\ Head(s) \in WhiteSpace THEN TrimStart(Tail(s)) ELSE s

RECURSIVE TrimEnd(_)
TrimEnd(s) ==
  IF s # <<>> /\ s[Len(s)] \in WhiteSpace
    THEN TrimEnd(SubSeq(s, 1, Len(s) - 1))
    ELSE s

\* String.prototype.trim
Trim(s) == TrimEnd(TrimStart(s))

(***************************************************************************)
(* Numbers: a finite number is an exact rational <<n, d>> in lowest terms, *)
(* d > 0; Infinity, -Infinity and NaN are <<1, 0>>, <<-1, 0>> and <<0, 0>>. *)
(* The rounding of finite doubles is left out.                             *)
(***************************************************************************)
Abs(n) == IF n < 0 THEN -n ELSE n

Sign(n) == IF n < 0 THEN -1 ELSE IF n > 0 THEN 1 ELSE 0

Infinity == <<1, 0>>

NaN == <<0, 0>>

\* A number that is neither an infinity nor NaN.
IsFinite(r) == r[2] # 0

RECURSIVE GCD(_, _)
GCD(a, b) == IF b = 0 THEN a ELSE GCD(b, a % b)

Rat(n, d) ==
  IF d = 0
    THEN <<Sign(n), 0>>
    ELSE LET g == GCD(Abs(n), Abs(d))
             s == IF d < 0 THEN -1 ELSE 1
         IN  <<(s * n) \div g, (s * d) \div g>>

RInt(k) == <<k, 1>>

Zero == RInt(0)

\* Infinity + -Infinity is NaN, as is any sum with NaN.
RAdd(a, b) ==
  IF a[2] = 0 /\ b[2] = 0 THEN (IF a = b THEN a ELSE NaN)
  ELSE IF a[2] = 0 THEN a
  ELSE IF b[2] = 0 THEN b
  ELSE LET g == GCD(a[2], b[2])
       IN  Rat(a[1] * (b[2] \div g) + b[1] * (a[2] \div g), a[2] * (b[2] \div g))

RNeg(a) == <<-a[1], a[2]>>

RSub(a, b) == RAdd(a, RNeg(b))

\* Infinity * 0 is NaN, as is any product with NaN.
RMul(a, b) ==
  IF a[2] = 0 \/ b[2] = 0
    THEN <<Sign(a[1]) * Sign(b[1]), 0>>
    ELSE LET g1 == GCD(Abs(a[1]), b[2])
             g2 == GCD(Abs(b[1]), a[2])
         IN  Rat((a[1] \div g1) * (b[1] \div g2), (a[2] \div g2) * (b[2] \div g1))

\* x / 0 is an infinity, 0 / 0 and Infinity / Infinity are NaN, x / Infinity
\* is 0.
RDiv(a, b) == RMul(a, IF b[1] < 0 THEN <<-b[2], -b[1]>> ELSE <<b[2], b[1]>>)

RScale(k, a) == RMul(RInt(k), a)

\* a < b: false when either is NaN.
RLess(a, b) ==
  IF a = NaN \/ b = NaN THEN FALSE
  ELSE IF a[2] = 0 /\ b[2] = 0 THEN a[1] < b[1]
  ELSE IF a[2] = 0 THEN a[1] < 0
  ELSE IF b[2] = 0 THEN b[1] > 0
  ELSE LET g == GCD(a[2], b[2])
       IN  a[1] * (b[2] \div g) < b[1] * (a[2] \div g)

\* a === b: false when either is NaN.
RSame(a, b) == a # NaN /\ b # NaN /\ a = b

RECURSIVE Pow10(_)
Pow10(k) == IF k = 0 THEN 1 ELSE 10 * Pow10(k - 1)

(***************************************************************************)
(* Validation shared by the two entry points                               *)
(***************************************************************************)
\* isValidSvgPath: the regular expression /[MmLlHhVvCcSsQqTtAaZz]/ matches
\* when some character of the text is a command letter.
\* A validation that forgets the closing commands.
isValidSvgPath_NoClose(path) ==
  \E k \in 1..Len(path) : path[k] \in CommandLetters \ {"Z", "z"}

isValidSvgPath(path) == \E k \in 1..Len(path) : path[k] \in CommandLetters

\* How a call ends: with a value returned, with an Error thrown (value is
\* its message), or never.
Returned(value) == [status |-> "returned", value |-> value]

Thrown(message) == [status |-> "thrown", value |-> message]

Diverges == [status |-> "diverges", value |-> ""]

\* `clip-path: path('${cleanPath}');`
PathDeclaration(cleanPath) == "clip-path: path('" \o Join(cleanPath) \o "');"

\* A path() conversion that accepts only a text starting with a move.
convertSvgPathToClipPath_NeedsMove(svgPath) ==
  IF svgPath = <<>> \/ Trim(svgPath) = <<>>
    THEN Thrown("SVG path cannot be empty")
    ELSE IF Trim(svgPath)[1] \notin {"M", "m"}
      THEN Thrown("Invalid SVG path format")
      ELSE Returned(PathDeclaration(Trim(svgPath)))

\* convertSvgPathToClipPath.  !svgPath is true of the empty string.
convertSvgPathToClipPath(svgPath) ==
  IF svgPath = <<>> \/ Trim(svgPath) = <<>>
    THEN Thrown("SVG path cannot be empty")
    ELSE IF ~isValidSvgPath(Trim(svgPath))
      THEN Thrown("Invalid SVG path format")
      ELSE Returned(PathDeclaration(Trim(svgPath)))

(***************************************************************************)
(* Tokenizer                                                               *)
(***************************************************************************)
CommandToken(letter) == [type |-> "command", value |-> letter]

NumberToken(value) == [type |-> "number", value |-> value]

RECURSIVE ScanNumber(_, _, _, _, _)
\* The inner loop of the number branch: from index i (0-based) of path,
\* with numStr read so far.  Gives the literal read and the index after it.
ScanNumber(path, i, numStr, hasDecimal, hasExponent) ==
  IF i >= Len(path)
    THEN [numStr |-> numStr, i |-> i]
    ELSE
      LET c == path[i + 1] IN
      IF c \in Digits
        THEN ScanNumber(path, i + 1, Append(numStr, c), hasDecimal, hasExponent)
      ELSE IF c = "." /\ ~hasDecimal /\ ~hasExponent
        THEN ScanNumber(path, i + 1, Append(numStr, c), TRUE, hasExponent)
      ELSE IF c \in {"e", "E"} /\ ~hasExponent /\ Len(numStr) > 0
        THEN IF i + 1 < Len(path) /\ path[i + 2] \in Signs
               THEN ScanNumber(path, i + 2, numStr \o <<c, path[i + 2]>>,
                               hasDecimal, TRUE)
               ELSE ScanNumber(path, i + 1, Append(numStr, c), hasDecimal, TRUE)
      ELSE [numStr |-> numStr, i |-> i]

\* The literal starting at index i: the optional sign, then the inner loop.
ReadLiteral(path, i) ==
  IF path[i + 1] \in Signs
    THEN ScanNumber(path, i + 1, <<path[i + 1]>>, FALSE, FALSE)
    ELSE ScanNumber(path, i, <<>>, FALSE, FALSE)

\* The test without its check of a trailing exponent marker.
InvalidNumberFormat_NoExponentCheck(numStr) ==
  numStr \in {<<>>, <<".">>, <<"-">>, <<"+">>, <<"-", ".">>, <<"+", ".">>}

\* The test of lines 145-146 on the literal read.
InvalidNumberFormat(numStr) ==
  \/ numStr \in {<<>>, <<".">>, <<"-">>, <<"+">>, <<"-", ".">>, <<"+", ".">>}
  \/ numStr[Len(numStr)] \in {"e", "E"}

RECURSIVE DigitsValue(_)
DigitsValue(ds) ==
  IF ds = <<>> THEN 0
  ELSE 10 * DigitsValue(SubSeq(ds, 1, Len(ds) - 1)) + DigitVal(ds[Len(ds)])

RECURSIVE TakeDigits(_)
\* The longest prefix of s made of digits.
TakeDigits(s) ==
  IF s # <<>> /\ Head(s) \in Digits
    THEN <<Head(s)>> \o TakeDigits(Tail(s))
    ELSE <<>>

Drop(s, k) == SubSeq(s, k + 1, Len(s))

\* A literal worth 10 to a power above this one is read as Infinity.
MaxDecimalExponent == 308

\* The value of a decimal literal from its parts: the digits before and
\* after the point, and the digits of the exponent with their sign.
DecimalValue(negative, intDigits, fracDigits, expNegative, expDigits) ==
  IF intDigits = <<>> /\ fracDigits = <<>>
    THEN NaN
    ELSE IF /\ ~expNegative
            /\ DigitsValue(expDigits) - Len(fracDigits) > MaxDecimalExponent
            /\ DigitsValue(intDigits \o fracDigits) # 0
      THEN (IF negative THEN RNeg(Infinity) ELSE Infinity)
    ELSE IF (IF expNegative THEN -1 ELSE 1) * DigitsValue(expDigits) >= Len(fracDigits)
      THEN Rat((IF negative THEN -1 ELSE 1) * DigitsValue(intDigits \o fracDigits)
                 * Pow10((IF expNegative THEN -1 ELSE 1) * DigitsValue(expDigits)
                         - Len(fracDigits)),
               1)
      ELSE Rat((IF negative THEN -1 ELSE 1) * DigitsValue(intDigits \o fracDigits),
               Pow10(Len(fracDigits)
                     - (IF expNegative THEN -1 ELSE 1) * DigitsValue(expDigits)))

StripSign(s) == IF s # <<>> /\ Head(s) \in Signs THEN Tail(s) ELSE s

\* The exponent part, from the text after the mantissa: digits count only
\* after a marker e/E and an optional sign.
ExponentText(s) == IF s # <<>> /\ Head(s) \in {"e", "E"} THEN Tail(s) ELSE <<>>

\* The fraction digits, from the text after the integer digits.
FractionDigits(s) == IF s # <<>> /\ Head(s) = "." THEN TakeDigits(Tail(s)) ELSE <<>>

AfterFraction(s) ==
  IF s # <<>> /\ Head(s) = "." THEN Drop(s, 1 + Len(TakeDigits(Tail(s)))) ELSE s

AfterDigits(s) == Drop(s, Len(TakeDigits(s)))

\* parseFloat taking every exponent for a positive one.
parseFloat_UnsignedExponent(numStr) ==
  DecimalValue(numStr # <<>> /\ Head(numStr) = "-",
               TakeDigits(StripSign(numStr)),
               FractionDigits(AfterDigits(StripSign(numStr))),
               FALSE,
               TakeDigits(StripSign(
                 ExponentText(AfterFraction(AfterDigits(StripSign(numStr)))))))

\* parseFloat: the value of the longest prefix of numStr that is a decimal
\* literal  [sign] (digits [. digits] | . digits) [e [sign] digits],
\* NaN when no prefix is one.  An exponent marker that no digit follows is
\* not part of the prefix.
parseFloat(numStr) ==
  DecimalValue(numStr # <<>> /\ Head(numStr) = "-",
               TakeDigits(StripSign(numStr)),
               FractionDigits(AfterDigits(StripSign(numStr))),
               ExponentText(AfterFraction(AfterDigits(StripSign(numStr)))) # <<>>
                 /\ Head(ExponentText(AfterFraction(AfterDigits(StripSign(numStr))))) = "-",
               TakeDigits(StripSign(
                 ExponentText(AfterFraction(AfterDigits(StripSign(numStr)))))))

\* A number branch that steps over the character after the literal.
PushLiteral_SkipsNext(t, lit) ==
  IF InvalidNumberFormat(lit.numStr)
    THEN [t EXCEPT !.i = lit.i,
                   !.error = "Invalid number format: \"" \o Join(lit.numStr) \o "\""]
  ELSE IF parseFloat(lit.numStr) = NaN
    THEN [t EXCEPT !.i = lit.i,
                   !.error = "Invalid numeric value: \"" \o Join(lit.numStr) \o "\""]
  ELSE [t EXCEPT !.i = lit.i + 1,
                 !.tokens = Append(t.tokens, NumberToken(parseFloat(lit.numStr)))]

\* The number branch (lines 108-157) once the literal lit is read.
PushLiteral(t, lit) ==
  IF InvalidNumberFormat(lit.numStr)
    THEN [t EXCEPT !.i = lit.i,
                   !.error = "Invalid number format: \"" \o Join(lit.numStr) \o "\""]
  ELSE IF parseFloat(lit.numStr) = NaN
    THEN [t EXCEPT !.i = lit.i,
                   !.error = "Invalid numeric value: \"" \o Join(lit.numStr) \o "\""]
  ELSE [t EXCEPT !.i = lit.i,
                 !.tokens = Append(t.tokens, NumberToken(parseFloat(lit.numStr)))]

\* One iteration of the tokenizer's main loop (lines 91-161) on the
\* tokenizer's locals t = [i, tokens, error]; error = "" while none is thrown.
TokenizeChar(path, t) ==
  IF path[t.i + 1] \in Separators
    THEN [t EXCEPT !.i = t.i + 1]
  ELSE IF path[t.i + 1] \in CommandLetters
    THEN [t EXCEPT !.i = t.i + 1,
                   !.tokens = Append(t.tokens, CommandToken(path[t.i + 1]))]
  ELSE IF path[t.i + 1] \in NumberStart
    THEN PushLiteral(t, ReadLiteral(path, t.i))
  ELSE [t EXCEPT !.error = "Unexpected character \"" \o path[t.i + 1]
                             \o "\" at position " \o ToString(t.i)]

TokenizerStart == [i |-> 0, tokens |-> <<>>, error |-> ""]

RECURSIVE TokenizeFrom(_, _)
TokenizeFrom(path, t) ==
  IF t.error # "" \/ t.i >= Len(path) THEN t ELSE TokenizeFrom(path, TokenizeChar(path, t))

\* tokenizePath: the tokens, or the error thrown.
tokenizePath(path) ==
  LET t == TokenizeFrom(path, TokenizerStart)
  IN  IF t.error # "" THEN Thrown(t.error) ELSE Returned(t.tokens)

(***************************************************************************)
(* Curve and arc flatteners                                                *)
(***************************************************************************)
Point(x, y) == [x |-> x, y |-> y]

One == RInt(1)

\* cubicBezier
cubicBezier(x0, y0, x1, y1, x2, y2, x3, y3, t) ==
  LET mt == RSub(One, t)
      mt2 == RMul(mt, mt)
      mt3 == RMul(mt2, mt)
      t2 == RMul(t, t)
      t3 == RMul(t2, t)
      B(p0, p1, p2, p3) ==
        RAdd(RAdd(RAdd(RMul(mt3, p0),
                       RMul(RMul(RScale(3, mt2), t), p1)),
                  RMul(RMul(RScale(3, mt), t2), p2)),
             RMul(t3, p3))
  IN  Point(B(x0, x1, x2, x3), B(y0, y1, y2, y3))

\* quadraticBezier
quadraticBezier(x0, y0, x1, y1, x2, y2, t) ==
  LET mt == RSub(One, t)
      mt2 == RMul(mt, mt)
      t2 == RMul(t, t)
      B(p0, p1, p2) ==
        RAdd(RAdd(RMul(mt2, p0), RMul(RMul(RScale(2, mt), t), p1)),
             RMul(t2, p2))
  IN  Point(B(x0, x1, x2), B(y0, y1, y2))

\* The flattening loop  for (t = 1; t <= curveSegments; t++)  of the cubic
\* cases: the points at ratio t / curveSegments, in order.
FlattenCubic(x0, y0, x1, y1, x2, y2, x3, y3, curveSegments) ==
  [t \in 1..curveSegments |->
     cubicBezier(x0, y0, x1, y1, x2, y2, x3, y3, Rat(t, curveSegments))]

\* The same loop of the quadratic cases.
FlattenQuadratic(x0, y0, x1, y1, x2, y2, curveSegments) ==
  [t \in 1..curveSegments |->
     quadraticBezier(x0, y0, x1, y1, x2, y2, Rat(t, curveSegments))]

\* The sample points of an arc with non-zero radii between two distinct
\* finite points (lines 668-722).  The program places sample i at angle
\* theta1 + (i / segments) * dTheta on the ellipse through both end points;
\* trigonometry has no exact counterpart here, so sample i is placed at the
\* same fraction i / segments of the chord from (x1, y1) to (x2, y2).  Kept
\* from the program: the number of samples, their order, that (x1, y1) is not
\* among them and that the last one is the end point (the program's is
\* within rounding of it).
ArcSamples(x1, y1, x2, y2, segments) ==
  [i \in 1..segments |->
     LET t == Rat(i, segments)
     IN  Point(RAdd(x1, RMul(t, RSub(x2, x1))), RAdd(y1, RMul(t, RSub(y2, y1))))]

\* The conditions under which the centre (cx, cy) of lines 688-696 is NaN.
\* With both end points equal x1p = y1p = 0, the quotient of lines 688-689
\* is a positive number over 0, Infinity, and line 691 multiplies its root
\* by rx * y1p = 0.  With a coordinate, a radius or the rotation not finite
\* a difference Infinity - Infinity, a product 0 * Infinity or the cosine of
\* Infinity is NaN.
CenterIsNaN(x1, y1, rx, ry, xAxisRotation, x2, y2) ==
  \/ \E r \in {x1, y1, rx, ry, xAxisRotation, x2, y2} : ~IsFinite(r)
  \/ (x1 = x2 /\ y1 = y2)

\* The samples of lines 711-720 around such a centre.
NaNSamples(segments) == [i \in 1..segments |-> Point(NaN, NaN)]

\* approximateArc sampling a flat arc like any other.
approximateArc_FlatSampled(x1, y1, rx, ry, xAxisRotation, largeArcFlag, sweepFlag, x2, y2, segments) ==
  IF rx = Zero \/ ry = Zero
    THEN [i \in 1..segments |-> Point(x2, y2)]
  ELSE IF CenterIsNaN(x1, y1, rx, ry, xAxisRotation, x2, y2)
    THEN NaNSamples(segments)
  ELSE ArcSamples(x1, y1, x2, y2, segments)

\* approximateArc
approximateArc(x1, y1, rx, ry, xAxisRotation, largeArcFlag, sweepFlag, x2, y2, segments) ==
  IF rx = Zero \/ ry = Zero
    THEN <<Point(x2, y2)>>
  ELSE IF CenterIsNaN(x1, y1, rx, ry, xAxisRotation, x2, y2)
    THEN NaNSamples(segments)
  ELSE ArcSamples(x1, y1, x2, y2, segments)

(***************************************************************************)
(* Path interpreter                                                        *)
(***************************************************************************)
\* The relative commands without v.
RelativeCommands_NoV == {"m", "l", "h", "c", "s", "q", "t", "a"}

RelativeCommands == {"m", "l", "h", "v", "c", "s", "q", "t", "a"}

\* The operands a command reads, by the context each getNumber call names.
OperandNames(command) ==
  CASE command \in {"M", "m", "L", "l"} -> <<"x-coordinate", "y-coordinate">>
    [] command \in {"H", "h"} -> <<"x-coordinate">>
    [] command \in {"V", "v"} -> <<"y-coordinate">>
    [] command \in {"C", "c"} ->
         <<"control point 1 x", "control point 1 y",
           "control point 2 x", "control point 2 y", "end x", "end y">>
    [] command \in {"S", "s"} ->
         <<"control point 2 x", "control point 2 y", "end x", "end y">>
    [] command \in {"Q", "q"} ->
         <<"control point x", "control point y", "end x", "end y">>
    [] command \in {"T", "t"} -> <<"end x", "end y">>
    [] command \in {"A", "a"} ->
         <<"rx", "ry", "x-axis-rotation", "large-arc-flag", "sweep-flag",
           "end x", "end y">>
    [] OTHER -> <<>>

\* getNumber reading 0 past the last token.
getNumber_ZeroPastEnd(tokens, i, context) ==
  IF i >= Len(tokens)
    THEN [ok |-> TRUE, i |-> i + 1, value |-> Zero, error |-> ""]
  ELSE IF tokens[i + 1].type # "number"
    THEN [ok |-> FALSE, i |-> i, value |-> Zero,
          error |-> "Expected number for " \o context]
  ELSE [ok |-> TRUE, i |-> i + 1, value |-> tokens[i + 1].value, error |-> ""]

\* getNumber(context) at token index i (0-based).
getNumber(tokens, i, context) ==
  IF i >= Len(tokens) \/ tokens[i + 1].type # "number"
    THEN [ok |-> FALSE, i |-> i, value |-> Zero,
          error |-> "Expected number for " \o context]
    ELSE [ok |-> TRUE, i |-> i + 1, value |-> tokens[i + 1].value, error |-> ""]

RECURSIVE GetNumbers(_, _, _, _, _)
\* The getNumber calls of one switch case, in order, stopping at the first
\* that throws.
GetNumbers(tokens, i, command, names, values) ==
  IF names = <<>>
    THEN [ok |-> TRUE, i |-> i, values |-> values, error |-> ""]
    ELSE LET n == getNumber(tokens, i, command \o " command " \o Head(names))
         IN  IF n.ok
               THEN GetNumbers(tokens, n.i, command, Tail(names), Append(values, n.value))
               ELSE [ok |-> FALSE, i |-> i, values |-> values, error |-> n.error]

\* The interpreter's locals when the token loop starts (lines 177-187).
InterpreterStart ==
  [i |-> 0, command |-> "", isFirstCoordSet |-> TRUE,
   currentX |-> Zero, currentY |-> Zero,
   subpathStartX |-> Zero, subpathStartY |-> Zero,
   lastControlX |-> Zero, lastControlY |-> Zero,
   lastCommand |-> "", absolutePoints |-> <<>>, error |-> ""]

\* Absolute value of an operand pair: relative commands offset by the cursor.
AbsX(s, dx) == IF s.command \in RelativeCommands THEN RAdd(s.currentX, dx) ELSE dx

AbsY(s, dy) == IF s.command \in RelativeCommands THEN RAdd(s.currentY, dy) ELSE dy

\* case 'M', case 'm'
MoveTo(s, v) ==
  LET x == AbsX(s, v[1])
      y == AbsY(s, v[2])
  IN  [s EXCEPT !.currentX = x, !.currentY = y,
                !.subpathStartX = IF s.isFirstCoordSet THEN x ELSE @,
                !.subpathStartY = IF s.isFirstCoordSet THEN y ELSE @,
                !.absolutePoints = Append(@, Point(x, y))]

\* case 'L', case 'l'
LineTo(s, v) ==
  LET x == AbsX(s, v[1])
      y == AbsY(s, v[2])
  IN  [s EXCEPT !.currentX = x, !.currentY = y,
                !.absolutePoints = Append(@, Point(x, y))]

\* A horizontal line drawn on the x axis.
HorizontalTo_OnAxis(s, v) ==
  LET x == AbsX(s, v[1])
  IN  [s EXCEPT !.currentX = x, !.currentY = Zero,
                !.absolutePoints = Append(@, Point(x, Zero))]

\* case 'H', case 'h'
HorizontalTo(s, v) ==
  LET x == AbsX(s, v[1])
  IN  [s EXCEPT !.currentX = x,
                !.absolutePoints = Append(@, Point(x, s.currentY))]

\* case 'V', case 'v'
VerticalTo(s, v) ==
  LET y == AbsY(s, v[1])
  IN  [s EXCEPT !.currentY = y,
                !.absolutePoints = Append(@, Point(s.currentX, y))]

\* case 'C', case 'c'
CubicTo(s, v, curveSegments) ==
  LET x1 == AbsX(s, v[1])
      y1 == AbsY(s, v[2])
      x2 == AbsX(s, v[3])
      y2 == AbsY(s, v[4])
      x == AbsX(s, v[5])
      y == AbsY(s, v[6])
  IN  [s EXCEPT !.absolutePoints =
                   @ \o FlattenCubic(s.currentX, s.currentY, x1, y1, x2, y2, x, y,
                                     curveSegments),
                !.lastControlX = x2, !.lastControlY = y2,
                !.currentX = x, !.currentY = y]

\* The first control point of S/s: the last control point reflected about
\* the cursor after a cubic command, the cursor otherwise.
ReflectsCubic(lastCommand) == lastCommand \in {"C", "c", "S", "s"}

\* The test of T/t that takes no T/t for a quadratic command.
ReflectsQuadratic_OnlyAfterQ(lastCommand) == lastCommand \in {"Q", "q"}

\* The control point of T/t, likewise after a quadratic command.
ReflectsQuadratic(lastCommand) == lastCommand \in {"Q", "q", "T", "t"}

Reflect(current, lastControl) == RSub(RScale(2, current), lastControl)

\* case 'S', case 's'
SmoothCubicTo(s, v, curveSegments) ==
  LET reflects == ReflectsCubic(s.lastCommand)
      x1 == IF reflects THEN Reflect(s.currentX, s.lastControlX) ELSE s.currentX
      y1 == IF reflects THEN Reflect(s.currentY, s.lastControlY) ELSE s.currentY
      x2 == AbsX(s, v[1])
      y2 == AbsY(s, v[2])
      x == AbsX(s, v[3])
      y == AbsY(s, v[4])
  IN  [s EXCEPT !.absolutePoints =
                   @ \o FlattenCubic(s.currentX, s.currentY, x1, y1, x2, y2, x, y,
                                     curveSegments),
                !.lastControlX = x2, !.lastControlY = y2,
                !.currentX = x, !.currentY = y]

\* case 'Q', case 'q'
QuadraticTo(s, v, curveSegments) ==
  LET x1 == AbsX(s, v[1])
      y1 == AbsY(s, v[2])
      x == AbsX(s, v[3])
      y == AbsY(s, v[4])
  IN  [s EXCEPT !.absolutePoints =
                   @ \o FlattenQuadratic(s.currentX, s.currentY, x1, y1, x, y,
                                         curveSegments),
                !.lastControlX = x1, !.lastControlY = y1,
                !.currentX = x, !.currentY = y]

\* case 'T', case 't'
SmoothQuadraticTo(s, v, curveSegments) ==
  LET reflects == ReflectsQuadratic(s.lastCommand)
      x1 == IF reflects THEN Reflect(s.currentX, s.lastControlX) ELSE s.currentX
      y1 == IF reflects THEN Reflect(s.currentY, s.lastControlY) ELSE s.currentY
      x == AbsX(s, v[1])
      y == AbsY(s, v[2])
  IN  [s EXCEPT !.absolutePoints =
                   @ \o FlattenQuadratic(s.currentX, s.currentY, x1, y1, x, y,
                                         curveSegments),
                !.lastControlX = x1, !.lastControlY = y1,
                !.currentX = x, !.currentY = y]

\* case 'A', case 'a'
ArcTo(s, v, arcSegments) ==
  LET x == AbsX(s, v[6])
      y == AbsY(s, v[7])
  IN  [s EXCEPT !.absolutePoints =
                   @ \o approximateArc(s.currentX, s.currentY, v[1], v[2], v[3],
                                       v[4] # Zero, v[5] # Zero, x, y, arcSegments),
                !.currentX = x, !.currentY = y]

\* Closing that emits subpath-start and leaves the cursor where it was.
ClosePath_CursorStays(s) ==
  IF ~RSame(s.currentX, s.subpathStartX) \/ ~RSame(s.currentY, s.subpathStartY)
    THEN [s EXCEPT !.absolutePoints = Append(@, Point(s.subpathStartX, s.subpathStartY))]
    ELSE s

\* case 'Z', case 'z'
ClosePath(s) ==
  IF ~RSame(s.currentX, s.subpathStartX) \/ ~RSame(s.currentY, s.subpathStartY)
    THEN [s EXCEPT !.absolutePoints = Append(@, Point(s.subpathStartX, s.subpathStartY)),
                   !.currentX = s.subpathStartX, !.currentY = s.subpathStartY]
    ELSE s

\* The switch on the command (lines 214-547), its operands read.
Dispatch(s, v, curveSegments, arcSegments) ==
  CASE s.command \in {"M", "m"} -> MoveTo(s, v)
    [] s.command \in {"L", "l"} -> LineTo(s, v)
    [] s.command \in {"H", "h"} -> HorizontalTo(s, v)
    [] s.command \in {"V", "v"} -> VerticalTo(s, v)
    [] s.command \in {"C", "c"} -> CubicTo(s, v, curveSegments)
    [] s.command \in {"S", "s"} -> SmoothCubicTo(s, v, curveSegments)
    [] s.command \in {"Q", "q"} -> QuadraticTo(s, v, curveSegments)
    [] s.command \in {"T", "t"} -> SmoothQuadraticTo(s, v, curveSegments)
    [] s.command \in {"A", "a"} -> ArcTo(s, v, arcSegments)
    [] s.command \in {"Z", "z"} -> ClosePath(s)

\* The getNumber calls of the command's case.
Operands(tokens, s) ==
  GetNumbers(tokens, s.i, s.command, OperandNames(s.command), <<>>)

\* The end of one pass of the do-loop body: a getNumber that threw leaves
\* its error (the catch of lines 548-553 rethrows it unchanged); otherwise
\* the case ran, giving the locals `after`, and lines 555-556 set
\* lastCommand and isFirstCoordSet.
Conclude(s, ops, after) ==
  IF ~ops.ok
    THEN [s EXCEPT !.error = ops.error]
    ELSE [after EXCEPT !.lastCommand = s.command, !.isFirstCoordSet = FALSE]

\* The locals once the operands are read.
Consumed(s, ops) == [s EXCEPT !.i = ops.i]

\* One pass of the do-loop body up to line 556, for any command.
ExecuteCommand(tokens, s, curveSegments, arcSegments) ==
  Conclude(s, Operands(tokens, s),
           Dispatch(Consumed(s, Operands(tokens, s)), Operands(tokens, s).values,
                    curveSegments, arcSegments))

\* Lines 560-571, evaluated after isFirstCoordSet was set to false: whether
\* the do-loop runs its body again for the same command.
RepeatsCommand(tokens, s) ==
  \/ s.command \in {"M", "m"} /\ ~s.isFirstCoordSet
  \/ s.i < Len(tokens) /\ tokens[s.i + 1].type = "number"

\* The head of the token loop (lines 190-208) when a token is left.
ReadCommand(tokens, s) ==
  IF tokens[s.i + 1].type # "command"
    THEN [s EXCEPT !.error = "Expected command, got number at token " \o ToString(s.i)]
    ELSE [s EXCEPT !.command = tokens[s.i + 1].value, !.i = s.i + 1,
                   !.isFirstCoordSet = TRUE]

RECURSIVE InterpretFrom(_, _, _, _, _)
RECURSIVE InterpretAfter(_, _, _, _, _)
\* The token loop from locals s, at the loop head (inGroup false) or at
\* the do-loop body (inGroup true): the points, the error thrown, or no
\* end.
InterpretFrom(tokens, s, inGroup, curveSegments, arcSegments) ==
  IF s.error # "" THEN Thrown(s.error)
  ELSE IF ~inGroup
    THEN IF s.i >= Len(tokens)
           THEN Returned(s.absolutePoints)
           ELSE InterpretFrom(tokens, ReadCommand(tokens, s), TRUE,
                              curveSegments, arcSegments)
    ELSE InterpretAfter(tokens, s,
                        ExecuteCommand(tokens, s, curveSegments, arcSegments),
                        curveSegments, arcSegments)

\* After one pass of the body took the locals from s to n.  A pass that
\* leaves every local as it was and repeats is a loop that never ends.
InterpretAfter(tokens, s, n, curveSegments, arcSegments) ==
  IF n.error # "" THEN Thrown(n.error)
  ELSE IF ~RepeatsCommand(tokens, n)
    THEN InterpretFrom(tokens, n, FALSE, curveSegments, arcSegments)
  ELSE IF n = s THEN Diverges
  ELSE InterpretFrom(tokens, n, TRUE, curveSegments, arcSegments)

(***************************************************************************)
(* Normalizer and polygon emitter                                          *)
(***************************************************************************)
\* The least and the greatest of a non-empty list of numbers (the Math.min
\* and Math.max folds of lines 586-591).
MinOf(values) ==
  IF \E k \in 1..Len(values) : values[k] = NaN
    THEN NaN
    ELSE CHOOSE v \in {values[k] : k \in 1..Len(values)} :
           \A k \in 1..Len(values) : ~RLess(values[k], v)

MaxOf(values) ==
  IF \E k \in 1..Len(values) : values[k] = NaN
    THEN NaN
    ELSE CHOOSE v \in {values[k] : k \in 1..Len(values)} :
           \A k \in 1..Len(values) : ~RLess(v, values[k])

Xs(points) == [k \in 1..Len(points) |-> points[k].x]

Ys(points) == [k \in 1..Len(points) |-> points[k].y]

\* Math.round: the nearest integer, halves upwards.
MathRound(r) == (2 * r[1] + r[2]) \div (2 * r[2])

Hundred == RInt(100)

Fifty == RInt(50)

\* Math.round(normalized * 100) / 100
RoundToHundredths(r) ==
  IF r[2] = 0 THEN r ELSE Rat(MathRound(RMul(r, Hundred)), 100)

\* width > 0 ? ((v - min) / width) * 100 : 50   (lines 599-600)
NormalizeCoordinate(v, min, extent) ==
  IF RLess(Zero, extent) THEN RMul(RDiv(RSub(v, min), extent), Hundred) ELSE Fifty

\* Lines 580-607, for a non-empty point list.
NormalizePoints(absolutePoints) ==
  LET minX == MinOf(Xs(absolutePoints))
      minY == MinOf(Ys(absolutePoints))
      maxX == MaxOf(Xs(absolutePoints))
      maxY == MaxOf(Ys(absolutePoints))
      width == RSub(maxX, minX)
      height == RSub(maxY, minY)
  IN  [k \in 1..Len(absolutePoints) |->
         Point(RoundToHundredths(NormalizeCoordinate(absolutePoints[k].x, minX, width)),
               RoundToHundredths(NormalizeCoordinate(absolutePoints[k].y, minY, height)))]

\* Number to string, for a number of at most two decimals: no trailing
\* zeros and no decimal point for an integer.
NumberToString(r) ==
  IF r[2] = 0 THEN (IF r[1] = 0 THEN "NaN"
                    ELSE IF r[1] < 0 THEN "-Infinity" ELSE "Infinity") ELSE
  LET h == Abs(r[1]) * (100 \div r[2])
      whole == h \div 100
      frac == h % 100
  IN  (IF r[1] < 0 THEN "-" ELSE "") \o ToString(whole) \o
      (IF frac = 0 THEN ""
       ELSE IF frac % 10 = 0 THEN "." \o ToString(frac \div 10)
       ELSE "." \o ToString(frac \div 10) \o ToString(frac % 10))

\* `${point.x}% ${point.y}%`
PointText(point) == NumberToString(point.x) \o "% " \o NumberToString(point.y) \o "%"

RECURSIVE JoinRange(_, _, _)
\* The texts of points lo..hi, joined by ', '.
JoinRange(points, lo, hi) ==
  IF lo > hi THEN ""
  ELSE IF lo = hi THEN PointText(points[lo])
  ELSE LET mid == (lo + hi) \div 2
       IN  JoinRange(points, lo, mid) \o ", " \o JoinRange(points, mid + 1, hi)

\* points.map(point => `${point.x}% ${point.y}%`).join(', ')
JoinPoints(points) == JoinRange(points, 1, Len(points))

\* `clip-path: polygon(${polygonPoints});`
PolygonDeclaration(points) == "clip-path: polygon(" \o JoinPoints(points) \o ");"

\* The catch of lines 62-64.
PolygonFailure(message) == "Failed to convert path to polygon: " \o message

DefaultCurveSegments == 8

DefaultArcSegments == 16

\* options.curveSegments ?? 8, options.arcSegments ?? 16: an option left
\* out of the options object is undefined.
CurveSegmentsOf_LowDefault(options) ==
  IF "curveSegments" \in DOMAIN options THEN options.curveSegments ELSE 4

CurveSegmentsOf(options) ==
  IF "curveSegments" \in DOMAIN options THEN options.curveSegments
                                         ELSE DefaultCurveSegments

ArcSegmentsOf(options) ==
  IF "arcSegments" \in DOMAIN options THEN options.arcSegments
                                       ELSE DefaultArcSegments

\* Lines 576-578 and 52-61 on the interpreter's points.
EmitPoints(absolutePoints) ==
  IF absolutePoints = <<>>
    THEN Thrown(PolygonFailure("No points extracted from path"))
  ELSE IF Len(NormalizePoints(absolutePoints)) < 3
    THEN Thrown(PolygonFailure(
           "Path must contain at least 3 points to create a polygon"))
  ELSE Returned(PolygonDeclaration(NormalizePoints(absolutePoints)))

\* The try block of convertSvgPathToPolygon once the interpreter's run
\* is known.
EmitRun(run) ==
  CASE run.status = "diverges" -> Diverges
    [] run.status = "thrown" -> Thrown(PolygonFailure(run.value))
    [] OTHER -> EmitPoints(run.value)

\* extractPointsFromPath up to the end of the token loop, the tokenizer's
\* outcome toks known.
InterpretTokens(toks, options) ==
  IF toks.status = "thrown"
    THEN Thrown(toks.value)
    ELSE InterpretFrom(toks.value, InterpreterStart, FALSE,
                       CurveSegmentsOf(options), ArcSegmentsOf(options))

\* convertSvgPathToPolygon
convertSvgPathToPolygon(svgPath, options) ==
  IF svgPath = <<>> \/ Trim(svgPath) = <<>>
    THEN Thrown("SVG path cannot be empty")
  ELSE IF ~isValidSvgPath(Trim(svgPath))
    THEN Thrown("Invalid SVG path format")
  ELSE EmitRun(InterpretTokens(tokenizePath(Trim(svgPath)), options))

(***************************************************************************)
(* Inputs explored                                                         *)
(***************************************************************************)
\* The closed square of the input placeholder (part_003, line 104).  'M 10 10 L 90 10 L 90 90 L 10 90 Z'
SquarePath ==
  <<"M", " ", "1", "0", " ", "1", "0", " ", "L", " ", "9", "0", " ", "1", "0", " ", "L", " ", "9", "0", " ", "9", "0", " ", "L", " ", "1", "0", " ", "9", "0", " ", "Z">>

\* The same square without optional separators.  'M10,10L90,10L90,90L10,90Z'
CompactSquarePath ==
  <<"M", "1", "0", ",", "1", "0", "L", "9", "0", ",", "1", "0", "L", "9", "0", ",", "9", "0", "L", "1", "0", ",", "9", "0", "Z">>

\* A move and a close: one point.  'M10,10Z'
SinglePointPath ==
  <<"M", "1", "0", ",", "1", "0", "Z">>

\* A sign as the only separator of two numbers.  'M10-10'
SignSeparatedPath ==
  <<"M", "1", "0", "-", "1", "0">>

\* Two numbers and no command.  '-10-5'
TwoNegativesText ==
  <<"-", "1", "0", "-", "5">>

\* A letter that is no command.  'M 10 X 20'
UnknownLetterPath ==
  <<"M", " ", "1", "0", " ", "X", " ", "2", "0">>

\* The square drawn with line commands only.  'L 10 10 L 90 10 L 90 90 L 10 90 Z'
OpenSquarePath ==
  <<"L", " ", "1", "0", " ", "1", "0", " ", "L", " ", "9", "0", " ", "1", "0", " ", "L", " ", "9", "0", " ", "9", "0", " ", "L", " ", "1", "0", " ", "9", "0", " ", "Z">>

\* Every kind of separator between operands.  'L1,2\t3\n4 ,\r5 6'
MixedSeparatorPath ==
  <<"L", "1", ",", "2", "\t", "3", "\n", "4", " ", ",", "\r", "5", " ", "6">>

\* A number after a close command.  'L3 0L3 3Z5'
CloseThenNumberPath ==
  <<"L", "3", " ", "0", "L", "3", " ", "3", "Z", "5">>

\* An arc with non-zero radii.  'L0,0 A 50 50 0 0 1 100 100'
ArcPath ==
  <<"L", "0", ",", "0", " ", "A", " ", "5", "0", " ", "5", "0", " ", "0", " ", "0", " ", "1", " ", "1", "0", "0", " ", "1", "0", "0">>

\* Literals with a fraction, an exponent, a trailing point.  'L-.5e-3 1.L1e1 2E+'
ExponentPath ==
  <<"L", "-", ".", "5", "e", "-", "3", " ", "1", ".", "L", "1", "e", "1", " ", "2", "E", "+">>

\* Texts with a numeric literal that is no number.
MalformedNumberTexts ==
  {<<"+">>,
   <<"-">>,
   <<".">>,
   <<"+", ".">>,
   <<"-", ".">>,
   <<"1", "E">>,
   <<"L", "5", " ", "+">>,
   <<"L", "1", " ", "2", "e">>,
   <<"L", ".", "5", " ", "3", "E">>,
   <<"L", "+", ".", " ", "1">>}

\* A numeral too large for a double, and the same taken away again.
OverflowPath ==
  <<"L", "1", "e", "9", "9", "9", " ", "0", "L", "0", " ", "0", "L", "5", " ", "5">>

OverflowBackPath ==
  <<"L", "1", "e", "9", "9", "9", " ", "0", "l", "-", "1", "e", "9", "9", "9", " ", "0", "L", "5", " ", "5">>

\* One literal with a sign, a fraction and a negative exponent.  '-.5e-3'
SmallExponentText == <<"-", ".", "5", "e", "-", "3">>

\* One literal ending in its decimal point.  '1.'
TrailingPointText == <<"1", ".">>

\* A cubic curve starting at an overflowed cursor.  'L1e999 0C0 0 0 0 5 5'
OverflowCurvePath ==
  <<"L", "1", "e", "9", "9", "9", " ", "0", "C", "0", " ", "0", " ", "0", " ", "0", " ", "5", " ", "5">>

\* An arc with non-zero radii that ends where it starts.  'L5 5A4 4 0 0 1 5 5L9 0'
ClosedArcPath ==
  <<"L", "5", " ", "5", "A", "4", " ", "4", " ", "0", " ", "0", " ", "1", " ", "5", " ", "5", "L", "9", " ", "0">>

\* Lines and one arc of radius 0.  'L9 0A0 4 0 0 1 9 9L0 9'
FlatArcPath ==
  <<"L", "9", " ", "0", "A", "0", " ", "4", " ", "0", " ", "0", " ", "1", " ", "9", " ", "9", "L", "0", " ", "9">>

\* One relative move group of three pairs, closed.  'm1 1 2 6 4 0z'
MoveGroupClosePath ==
  <<"m", "1", " ", "1", " ", "2", " ", "6", " ", "4", " ", "0", "z">>

\* Two closed runs of lines with no move between them.  'L9 0L9 9ZL3 5z'
TwoClosesPath ==
  <<"L", "9", " ", "0", "L", "9", " ", "9", "Z", "L", "3", " ", "5", "z">>

\* A quadratic, T twice in one group, then S twice in one group.
\* 'Q4 0 4 4T8 8 0 8S4 4 0 0 2 2 4 0'
SmoothRunPath ==
  <<"Q", "4", " ", "0", " ", "4", " ", "4", "T", "8", " ", "8", " ", "0", " ", "8", "S", "4", " ", "4", " ", "0", " ", "0", " ", "2", " ", "2", " ", "4", " ", "0">>

\* Relative curves and a relative horizontal line.  'L2 1c0 4 4 8 8 8q4 0 4-4h2'
RelativeCurvesPath ==
  <<"L", "2", " ", "1", "c", "0", " ", "4", " ", "4", " ", "8", " ", "8", " ", "8", "q", "4", " ", "0", " ", "4", "-", "4", "h", "2">>

ExamplePaths ==
  {RelativeCurvesPath,
   SmoothRunPath,
   TwoClosesPath,
   MoveGroupClosePath,
   FlatArcPath,
   ClosedArcPath,
   OverflowCurvePath,
   SmallExponentText,
   TrailingPointText,
   OverflowPath,
   OverflowBackPath,
   SquarePath,
   CompactSquarePath,
   SinglePointPath,
   SignSeparatedPath,
   TwoNegativesText,
   UnknownLetterPath,
   OpenSquarePath,
   MixedSeparatorPath,
   CloseThenNumberPath,
   ArcPath,
   ExponentPath}

\* Path fragments: one command with its operands, or operands alone.
Pieces ==
  <<<<"M", "1", " ", "1">>,
    <<"L", "9", " ", "0">>,
    <<"l", "0", " ", "9">>,
    <<"H", "3", "v", "5">>,
    <<"C", "0", " ", "4", " ", "4", " ", "8", " ", "8", " ", "8">>,
    <<"s", "4", " ", "0", " ", "4", "-", "4">>,
    <<"Q", "8", " ", "0", " ", "8", " ", "8">>,
    <<"t", "-", "4", " ", "4">>,
    <<"A", "4", " ", "4", " ", "0", " ", "0", " ", "1", " ", "8", " ", "0",
      "a", "0", " ", "4", " ", "0", " ", "0", " ", "1", " ", "2", " ", "2">>,
    <<"Z">>,
    <<" ", "2", " ", "6">>>>

\* The longest path built from fragments, in fragments.
MaxPieces == 2

RECURSIVE PiecePaths(_)
\* The concatenations of at most n fragments.
PiecePaths(n) ==
  IF n = 0 THEN {<<>>}
  ELSE PiecePaths(n - 1) \cup
       {p \o Pieces[k] : p \in PiecePaths(n - 1), k \in 1..Len(Pieces)}

\* Characters of the short texts.
Alphabet ==
  {"L", "Z", "M", "0", "-", ".", "e", " ", ",", "X"}

\* The longest short text, in characters.
MaxChars == 3

\* Every text over Alphabet of at most MaxChars characters.
ShortTexts == UNION {[1..n -> Alphabet] : n \in 0..MaxChars}

Inputs ==
  ExamplePaths \cup MalformedNumberTexts \cup PiecePaths(MaxPieces) \cup ShortTexts

\* qualityMap of ConverterSection.convertPath
qualityMap ==
  [low |-> [curveSegments |-> 4, arcSegments |-> 8],
   medium |-> [curveSegments |-> 8, arcSegments |-> 16],
   high |-> [curveSegments |-> 16, arcSegments |-> 32]]

Qualities == {"low", "medium", "high"}

\* The options argument omitted or empty (options = {}).
NoOptions == <<>>

\* The options a call is given: none, one of the two, or a preset.
OptionChoices ==
  {NoOptions, [curveSegments |-> 4], [arcSegments |-> 8]}
    \cup {qualityMap[q] : q \in Qualities}

\* The options tried on a text: the short texts hold no curve and no arc,
\* so that no segment count acts on them.
OptionsFor(text) ==
  IF text \in ShortTexts THEN {NoOptions, qualityMap["low"]} ELSE OptionChoices

\* Texts typed into the textarea or found in the d attribute of an
\* uploaded file's first path element.
BlankText == <<" ">>

NoCommandText == <<"1", "2">>

TrianglePath ==
  <<"L", "9", " ", "0", "L", "9", " ", "9", "L", "0", " ", "9">>

MovePath ==
  <<"M", "1", " ", "1", "L", "9", " ", "0", "L", "9", " ", "9">>

CurvePath ==
  <<"L", "8", " ", "0", "Q", "8", " ", "8", " ", "0", " ", "8">>

SpinPath ==
  <<"L", "3", " ", "0", "L", "3", " ", "3", "Z", "5">>

UITexts ==
  {<<>>, BlankText, NoCommandText, TrianglePath, MovePath, CurvePath, SpinPath}

\* What reading an uploaded file gives: the d attribute of its first path
\* element, or a failure (no file text, a parser error, no path element,
\* no or an empty d attribute).
NoPathData == [ok |-> FALSE, pathData |-> <<>>]

PathData(d) == [ok |-> TRUE, pathData |-> d]

FileReads ==
  {NoPathData, PathData(BlankText), PathData(CurvePath), PathData(SpinPath)}

\* The most file reads in flight at once.
MaxPendingReads == 1

(***************************************************************************)
(* One call of an entry point, as a state machine                          *)
(***************************************************************************)
VARIABLES
  fn,              \* the entry point called: "toClipPath" or "toPolygon"
  rawPath,         \* its svgPath argument
  options,         \* its options argument (toPolygon)
  pc,              \* where the call is
  cleanPath,       \* convertSvgPathToPolygon: the trimmed path
  curveSegments,   \* extractPointsFromPath: segments per curve
  arcSegments,     \* extractPointsFromPath: segments per arc
  tokI,            \* tokenizePath: i, the index of the next character
  tokens,          \* tokenizePath: the tokens read so far, then its result
  i,               \* extractPointsFromPath: the index of the next token
  command,
  isFirstCoordSet,
  currentX,
  currentY,
  subpathStartX,
  subpathStartY,
  lastControlX,
  lastControlY,
  lastCommand,
  absolutePoints,
  points,          \* the normalized points returned by extractPointsFromPath
  result,          \* the string returned, "" while there is none
  error,           \* the message of the Error thrown, "" while there is none
  passes,          \* passes through the body of the do-loop made so far
  svgPath,         \* ConverterSection state
  clipPathPath,
  clipPathPolygon,
  pathError,
  polygonError,
  polygonQuality,
  inputValue,      \* InputSection state
  reads,           \* file reads in flight, each with the quality its handler holds
  frozen           \* an event handler was entered and never returns

callVars == <<fn, rawPath, options>>

setupVars == <<cleanPath, curveSegments, arcSegments>>

tokVars == <<tokI, tokens>>

interpVars ==
  <<i, command, isFirstCoordSet, currentX, currentY, subpathStartX, subpathStartY,
    lastControlX, lastControlY, lastCommand, absolutePoints>>

outVars == <<points, result, error>>

callState == <<callVars, pc, setupVars, tokVars, interpVars, outVars, passes>>

outputVars == <<clipPathPath, clipPathPolygon, pathError, polygonError>>

uiVars == <<svgPath, outputVars, polygonQuality, inputValue, reads, frozen>>

vars == <<callState, uiVars>>

\* The interpreter's locals, as one record.
Locals ==
  [i |-> i, command |-> command, isFirstCoordSet |-> isFirstCoordSet,
   currentX |-> currentX, currentY |-> currentY,
   subpathStartX |-> subpathStartX, subpathStartY |-> subpathStartY,
   lastControlX |-> lastControlX, lastControlY |-> lastControlY,
   lastCommand |-> lastCommand, absolutePoints |-> absolutePoints, error |-> ""]

SetLocals(s) ==
  /\ i' = s.i
  /\ command' = s.command
  /\ isFirstCoordSet' = s.isFirstCoordSet
  /\ currentX' = s.currentX
  /\ currentY' = s.currentY
  /\ subpathStartX' = s.subpathStartX
  /\ subpathStartY' = s.subpathStartY
  /\ lastControlX' = s.lastControlX
  /\ lastControlY' = s.lastControlY
  /\ lastCommand' = s.lastCommand
  /\ absolutePoints' = s.absolutePoints

\* The components as mounted: every useState initial value.
Mounted ==
  /\ svgPath = <<>>
  /\ clipPathPath = ""
  /\ clipPathPolygon = ""
  /\ pathError = ""
  /\ polygonError = ""
  /\ polygonQuality = "medium"
  /\ inputValue = <<>>
  /\ reads = <<>>
  /\ frozen = FALSE

\* The locals of a call before it assigns them.
Unassigned ==
  /\ cleanPath = <<>>
  /\ curveSegments = DefaultCurveSegments
  /\ arcSegments = DefaultArcSegments
  /\ tokI = 0
  /\ tokens = <<>>
  /\ i = 0
  /\ command = ""
  /\ isFirstCoordSet = TRUE
  /\ currentX = Zero
  /\ currentY = Zero
  /\ subpathStartX = Zero
  /\ subpathStartY = Zero
  /\ lastControlX = Zero
  /\ lastControlY = Zero
  /\ lastCommand = ""
  /\ absolutePoints = <<>>
  /\ points = <<>>
  /\ result = ""
  /\ error = ""
  /\ passes = 0

\* A call of either entry point on any input, with any options, or of the
\* tokenizer alone on any input.
Init ==
  /\ fn \in {"toClipPath", "toPolygon", "tokenizePath"}
  /\ rawPath \in Inputs
  /\ options \in OptionsFor(rawPath)
  /\ fn # "toPolygon" => options = NoOptions
  /\ pc = "call"
  /\ Unassigned
  /\ Mounted

\* The call ends by throwing.
Throw(message) ==
  /\ pc' = "thrown"
  /\ error' = message
  /\ UNCHANGED <<points, result>>

\* The call ends by returning.
Return(value) ==
  /\ pc' = "returned"
  /\ result' = value
  /\ UNCHANGED <<points, error>>

\* convertSvgPathToClipPath, whole.
CallClipPath ==
  /\ pc = "call"
  /\ fn = "toClipPath"
  /\ LET r == convertSvgPathToClipPath(rawPath)
     IN  IF r.status = "returned" THEN Return(r.value) ELSE Throw(r.value)
  /\ UNCHANGED <<callVars, setupVars, tokVars, interpVars>>
  /\ UNCHANGED <<passes, uiVars>>

\* convertSvgPathToPolygon up to the call of tokenizePath: lines 39-47,
\* then lines 173-176 of extractPointsFromPath.  The two checks throw
\* outside the try block.
CallPolygon ==
  /\ pc = "call"
  /\ fn = "toPolygon"
  /\ IF rawPath = <<>> \/ Trim(rawPath) = <<>>
       THEN Throw("SVG path cannot be empty") /\ UNCHANGED setupVars
     ELSE IF ~isValidSvgPath(Trim(rawPath))
       THEN Throw("Invalid SVG path format") /\ UNCHANGED setupVars
     ELSE /\ cleanPath' = Trim(rawPath)
          /\ curveSegments' = CurveSegmentsOf(options)
          /\ arcSegments' = ArcSegmentsOf(options)
          /\ pc' = "tokenize"
          /\ UNCHANGED outVars
  /\ UNCHANGED <<callVars, tokVars, interpVars>>
  /\ UNCHANGED <<passes, uiVars>>

\* tokenizePath called on its own: the text is tokenized as given.
CallTokenizer ==
  /\ pc = "call"
  /\ fn = "tokenizePath"
  /\ cleanPath' = rawPath
  /\ pc' = "tokenize"
  /\ UNCHANGED <<callVars, curveSegments, arcSegments, tokVars, interpVars,
               outVars>>
  /\ UNCHANGED <<passes, uiVars>>

\* The tokenizer's locals move to t; an error thrown under
\* convertSvgPathToPolygon passes through its catch block.
TokenizerMoves(t) ==
  /\ tokI' = t.i
  /\ tokens' = t.tokens
  /\ IF t.error # ""
       THEN Throw(IF fn = "toPolygon" THEN PolygonFailure(t.error) ELSE t.error)
       ELSE pc' = "tokenize" /\ UNCHANGED outVars
  /\ UNCHANGED <<callVars, setupVars, interpVars>>

\* One pass of the tokenizer's loop on the character at tokI.
TokenizeStep ==
  TokenizerMoves(TokenizeChar(cleanPath, [i |-> tokI, tokens |-> tokens, error |-> ""]))

AtChar(class) ==
  /\ pc = "tokenize"
  /\ tokI < Len(cleanPath)
  /\ cleanPath[tokI + 1] \in class

\* Lines 95-98.
SkipSeparator ==
  /\ AtChar(Separators) /\ TokenizeStep
  /\ UNCHANGED <<passes, uiVars>>

\* Lines 101-105.
PushCommand ==
  /\ AtChar(CommandLetters) /\ TokenizeStep
  /\ UNCHANGED <<passes, uiVars>>

\* Lines 108-157.
PushNumber ==
  /\ AtChar(NumberStart) /\ TokenizeStep
  /\ UNCHANGED <<passes, uiVars>>

\* Line 160.
UnexpectedCharacter ==
  /\ pc = "tokenize"
  /\ tokI < Len(cleanPath)
  /\ cleanPath[tokI + 1] \notin Separators \cup CommandLetters \cup NumberStart
  /\ TokenizeStep
  /\ UNCHANGED <<passes, uiVars>>

\* tokenizePath returns; extractPointsFromPath sets up its locals.
TokenizeDone ==
  /\ pc = "tokenize"
  /\ fn = "toPolygon"
  /\ tokI >= Len(cleanPath)
  /\ pc' = "command"
  /\ SetLocals(InterpreterStart)
  /\ UNCHANGED <<callVars, setupVars, tokVars, outVars>>
  /\ UNCHANGED <<passes, uiVars>>

\* Line 163 when tokenizePath was called on its own: tokens is returned.
TokenizerReturns ==
  /\ pc = "tokenize"
  /\ fn = "tokenizePath"
  /\ tokI >= Len(cleanPath)
  /\ pc' = "returned"
  /\ UNCHANGED <<callVars, setupVars, tokVars, interpVars, outVars>>
  /\ UNCHANGED <<passes, uiVars>>

\* The interpreter's locals move to s; the loop goes on at `then`.
InterpreterMoves(s, then) ==
  /\ IF s.error # ""
       THEN Throw(PolygonFailure(s.error)) /\ UNCHANGED interpVars
       ELSE SetLocals(s) /\ pc' = then /\ UNCHANGED outVars
  /\ UNCHANGED <<callVars, setupVars, tokVars>>

\* The head of the token loop with a token left (lines 189-208).
NextCommand ==
  /\ pc = "command"
  /\ i < Len(tokens)
  /\ InterpreterMoves(ReadCommand(tokens, Locals), "group")
  /\ UNCHANGED <<passes, uiVars>>

\* One pass of the do-loop body (lines 210-573) took the locals to s.
Iterated(s) ==
  InterpreterMoves(s, IF s.error = "" /\ RepeatsCommand(tokens, s)
                        THEN "group" ELSE "command")

\* The pass of the body that runs the case `after` of the command.
Pass(after) == Conclude(Locals, Operands(tokens, Locals), after)

\* The locals the case starts from.
AtCase == Consumed(Locals, Operands(tokens, Locals))

\* The operands the case has read.
Read == Operands(tokens, Locals).values

\* The most passes through the do-loop followed in one call.
MaxPasses == 24

InGroup(commands) == pc = "group" /\ command \in commands /\ passes < MaxPasses

ExecMove ==
  /\ InGroup({"M", "m"}) /\ Iterated(Pass(MoveTo(AtCase, Read)))
  /\ passes' = passes + 1
  /\ UNCHANGED uiVars

ExecLine ==
  /\ InGroup({"L", "l"}) /\ Iterated(Pass(LineTo(AtCase, Read)))
  /\ passes' = passes + 1
  /\ UNCHANGED uiVars

ExecHorizontal ==
  /\ InGroup({"H", "h"}) /\ Iterated(Pass(HorizontalTo(AtCase, Read)))
  /\ passes' = passes + 1
  /\ UNCHANGED uiVars

ExecVertical ==
  /\ InGroup({"V", "v"}) /\ Iterated(Pass(VerticalTo(AtCase, Read)))
  /\ passes' = passes + 1
  /\ UNCHANGED uiVars

ExecCubic ==
  /\ InGroup({"C", "c"}) /\ Iterated(Pass(CubicTo(AtCase, Read, curveSegments)))
  /\ passes' = passes + 1
  /\ UNCHANGED uiVars

ExecSmoothCubic ==
  /\ InGroup({"S", "s"}) /\ Iterated(Pass(SmoothCubicTo(AtCase, Read, curveSegments)))
  /\ passes' = passes + 1
  /\ UNCHANGED uiVars

ExecQuadratic ==
  /\ InGroup({"Q", "q"}) /\ Iterated(Pass(QuadraticTo(AtCase, Read, curveSegments)))
  /\ passes' = passes + 1
  /\ UNCHANGED uiVars

ExecSmoothQuadratic ==
  /\ InGroup({"T", "t"})
  /\ Iterated(Pass(SmoothQuadraticTo(AtCase, Read, curveSegments)))
  /\ passes' = passes + 1
  /\ UNCHANGED uiVars

ExecArc ==
  /\ InGroup({"A", "a"}) /\ Iterated(Pass(ArcTo(AtCase, Read, arcSegments)))
  /\ passes' = passes + 1
  /\ UNCHANGED uiVars

ExecClose ==
  /\ InGroup({"Z", "z"}) /\ Iterated(Pass(ClosePath(AtCase)))
  /\ passes' = passes + 1
  /\ UNCHANGED uiVars

\* The token loop has ended: lines 576-607.
Normalize ==
  /\ pc = "command"
  /\ i >= Len(tokens)
  /\ IF absolutePoints = <<>>
       THEN Throw(PolygonFailure("No points extracted from path"))
       ELSE /\ points' = NormalizePoints(absolutePoints)
            /\ pc' = "emit"
            /\ UNCHANGED <<result, error>>
  /\ UNCHANGED <<callVars, setupVars, tokVars, interpVars>>
  /\ UNCHANGED <<passes, uiVars>>

\* An emitter content with two points.
EmitPolygon_TwoPoints ==
  /\ pc = "emit"
  /\ IF Len(points) < 2
       THEN Throw(PolygonFailure(
              "Path must contain at least 3 points to create a polygon"))
       ELSE Return(PolygonDeclaration(points))
  /\ UNCHANGED <<callVars, setupVars, tokVars, interpVars>>
  /\ UNCHANGED <<passes, uiVars>>

\* Lines 52-61 on the points extractPointsFromPath returned.
EmitPolygon ==
  /\ pc = "emit"
  /\ IF Len(points) < 3
       THEN Throw(PolygonFailure(
              "Path must contain at least 3 points to create a polygon"))
       ELSE Return(PolygonDeclaration(points))
  /\ UNCHANGED <<callVars, setupVars, tokVars, interpVars>>
  /\ UNCHANGED <<passes, uiVars>>

Next ==
  \/ CallClipPath
  \/ CallPolygon
  \/ CallTokenizer
  \/ TokenizerReturns
  \/ SkipSeparator
  \/ PushCommand
  \/ PushNumber
  \/ UnexpectedCharacter
  \/ TokenizeDone
  \/ NextCommand
  \/ ExecMove
  \/ ExecLine
  \/ ExecHorizontal
  \/ ExecVertical
  \/ ExecCubic
  \/ ExecSmoothCubic
  \/ ExecQuadratic
  \/ ExecSmoothQuadratic
  \/ ExecArc
  \/ ExecClose
  \/ Normalize
  \/ EmitPolygon

Spec == Init /\ [][Next]_vars

Terminated == pc \in {"returned", "thrown"}

(***************************************************************************)
(* The components: ConverterSection holds the path, the two outputs, the   *)
(* two errors and the quality; InputSection holds the textarea's value and *)
(* reads uploaded files.  A handler runs to completion, and the state it   *)
(* sets is committed when it returns; a handler that never returns commits *)
(* nothing and leaves the page frozen.                                     *)
(***************************************************************************)

\* convertPath's early return: neither conversion is run.
NotRun == [status |-> "skipped", value |-> ""]

\* Lines 16-32 of convertPath: the path() conversion and what it gave.
PathOutcome(path) ==
  IF Trim(path) = <<>> THEN NotRun ELSE convertSvgPathToClipPath(path)

\* Lines 16-22 and 35-48 of convertPath: the polygon conversion.
PolygonOutcome(path, quality) ==
  IF Trim(path) = <<>>
    THEN NotRun
    ELSE convertSvgPathToPolygon(path, qualityMap[quality])

\* A convertPath that shows the path() output only beside a polygon.
convertPath_AllOrNothing(pathResult, polygonResult) ==
  /\ clipPathPath' =
       IF pathResult.status = "returned" /\ polygonResult.status = "returned"
         THEN pathResult.value ELSE ""
  /\ pathError' = IF pathResult.status = "thrown" THEN pathResult.value ELSE ""
  /\ clipPathPolygon' =
       IF polygonResult.status = "returned" THEN polygonResult.value ELSE ""
  /\ polygonError' =
       IF polygonResult.status = "thrown" THEN polygonResult.value ELSE ""

\* A convertPath that leaves the polygon output of the call before in place
\* when the polygon conversion fails.
convertPath_StaleOutput(pathResult, polygonResult) ==
  /\ clipPathPath' = IF pathResult.status = "returned" THEN pathResult.value ELSE ""
  /\ pathError' = IF pathResult.status = "thrown" THEN pathResult.value ELSE ""
  /\ clipPathPolygon' =
       IF polygonResult.status = "returned" THEN polygonResult.value ELSE clipPathPolygon
  /\ polygonError' =
       IF polygonResult.status = "thrown" THEN polygonResult.value ELSE ""

\* The four setters of convertPath, given what the two conversions gave.
convertPath(pathResult, polygonResult) ==
  /\ clipPathPath' = IF pathResult.status = "returned" THEN pathResult.value ELSE ""
  /\ pathError' = IF pathResult.status = "thrown" THEN pathResult.value ELSE ""
  /\ clipPathPolygon' =
       IF polygonResult.status = "returned" THEN polygonResult.value ELSE ""
  /\ polygonError' =
       IF polygonResult.status = "thrown" THEN polygonResult.value ELSE ""

\* A handler that never returns.
Freeze ==
  /\ frozen' = TRUE
  /\ UNCHANGED <<svgPath, outputVars, polygonQuality, inputValue>>

\* handlePathChange, as the closure that holds `quality`.
handlePathChange(path, pathResult, polygonResult, input) ==
  IF polygonResult.status = "diverges"
    THEN Freeze
    ELSE /\ svgPath' = path
         /\ convertPath(pathResult, polygonResult)
         /\ inputValue' = input
         /\ UNCHANGED <<polygonQuality, frozen>>

\* InputSection.handleTextChange: the textarea's change event.
handleTextChange(value) ==
  /\ ~frozen
  /\ handlePathChange(value, PathOutcome(value),
                      PolygonOutcome(value, polygonQuality), value)
  /\ UNCHANGED <<reads, callState>>

\* The conversion handleQualityChange runs when it has a path.
Requalified(quality, pathResult, polygonResult) ==
  IF polygonResult.status = "diverges"
    THEN Freeze
    ELSE /\ polygonQuality' = quality
         /\ convertPath(pathResult, polygonResult)
         /\ UNCHANGED <<svgPath, inputValue, frozen>>

\* A handleQualityChange that converts with the quality stored before it.
handleQualityChange_StoredQuality(quality) ==
  /\ ~frozen
  /\ IF Trim(svgPath) = <<>>
       THEN /\ polygonQuality' = quality
            /\ UNCHANGED <<svgPath, outputVars, inputValue, frozen>>
       ELSE Requalified(quality, PathOutcome(svgPath),
                        PolygonOutcome(svgPath, polygonQuality))
  /\ UNCHANGED <<reads, callState>>

\* ConverterSection.handleQualityChange: the quality selector's change event.
handleQualityChange(quality) ==
  /\ ~frozen
  /\ IF Trim(svgPath) = <<>>
       THEN /\ polygonQuality' = quality
            /\ UNCHANGED <<svgPath, outputVars, inputValue, frozen>>
       ELSE Requalified(quality, PathOutcome(svgPath),
                        PolygonOutcome(svgPath, quality))
  /\ UNCHANGED <<reads, callState>>

\* InputSection.handleFileUpload up to its await: the handler holds the
\* onPathChange of the render it was created in, hence that render's quality.
StartFileUpload(file) ==
  /\ ~frozen
  /\ Len(reads) < MaxPendingReads
  /\ reads' = Append(reads, [file |-> file, quality |-> polygonQuality])
  /\ UNCHANGED <<svgPath, outputVars, polygonQuality, inputValue, frozen, callState>>

Without(pending, k) ==
  [j \in 1..(Len(pending) - 1) |-> IF j < k THEN pending[j] ELSE pending[j + 1]]

\* What handleFileUpload passes to onPathChange: the d attribute, or '' from
\* the catch block.
Uploaded(file) == IF file.ok THEN file.pathData ELSE <<>>

\* InputSection.handleFileUpload from its await on.
FinishFileUpload(k) ==
  /\ ~frozen
  /\ k \in 1..Len(reads)
  /\ handlePathChange(Uploaded(reads[k].file),
                      PathOutcome(Uploaded(reads[k].file)),
                      PolygonOutcome(Uploaded(reads[k].file), reads[k].quality),
                      Uploaded(reads[k].file))
  /\ reads' = Without(reads, k)
  /\ UNCHANGED callState

\* The page before any call is made.
UIInit ==
  /\ fn = "toPolygon"
  /\ rawPath = <<>>
  /\ options = NoOptions
  /\ pc = "idle"
  /\ Unassigned
  /\ Mounted

UINext ==
  \/ \E value \in UITexts : handleTextChange(value)
  \/ \E quality \in Qualities : handleQualityChange(quality)
  \/ \E file \in FileReads : StartFileUpload(file)
  \/ \E k \in 1..MaxPendingReads : FinishFileUpload(k)

UISpec == UIInit /\ [][UINext]_vars

(***************************************************************************)
(* Properties                                                              *)
(***************************************************************************)
PolygonCall == fn = "toPolygon"

ClipPathCall == fn = "toClipPath"

InsufficientPoints ==
  "Failed to convert path to polygon: "
    \o "Path must contain at least 3 points to create a polygon"

\* C1: toPolygon called with "M 10 10 L 90 10 L 90 90 L 10 90 Z" and no
\* options ends by returning the polygon whose point list is exactly
\* "0% 0%, 100% 0%, 100% 100%, 0% 100%, 0% 0%".
C1_SquareGivesCorners ==
  (PolygonCall /\ rawPath = SquarePath /\ options = NoOptions /\ Terminated)
    => /\ pc = "returned"
       /\ result = "clip-path: polygon(0% 0%, 100% 0%, 100% 100%, 0% 100%, 0% 0%);"

\* The command letters as the specification lists them.
SpecCommandLetters ==
  {"M", "m", "L", "l", "H", "h", "V", "v", "C", "c",
   "S", "s", "Q", "q", "T", "t", "A", "a", "Z", "z"}

HasCommandLetter(text) == \E k \in 1..Len(text) : text[k] \in SpecCommandLetters

\* C2: toClipPath returns exactly when the trimmed input holds a command
\* letter, and then returns the path() declaration with the trimmed input
\* quoted and unchanged; on every other input it throws an error and
\* returns nothing.
C2_ClipPathIffCommandLetter ==
  (ClipPathCall /\ Terminated)
    => IF HasCommandLetter(Trim(rawPath))
         THEN /\ pc = "returned"
              /\ result = "clip-path: path('" \o Join(Trim(rawPath)) \o "');"
              /\ error = ""
         ELSE /\ pc = "thrown"
              /\ error # ""
              /\ result = ""

\* A padded input accepted on its closing command alone.
C2_Witness ==
  /\ ClipPathCall
  /\ pc = "returned"
  /\ rawPath = <<" ", "Z", " ">>
  /\ result = "clip-path: path('Z');"

\* C3: toPolygon called with "M10,10Z" throws the insufficient-points
\* error, not an error of the tokenizer or of the interpreter.
C3_SinglePointInsufficient ==
  (PolygonCall /\ rawPath = SinglePointPath /\ Terminated)
    => /\ pc = "thrown"
       /\ error = InsufficientPoints

\* C5: every call terminates.  The code is deterministic, so a call that
\* terminates never makes a pass through the do-loop of a command that
\* hands the next pass the very state it started from.
C5_EveryCallTerminates ==
  [][(pc = "group" /\ pc' = "group") => Locals' # Locals]_vars

StrictlyLess(a, b) == a[1] * b[2] < b[1] * a[2]

\* A number of [0, 100].
InRange(v) == v[2] > 0 /\ 0 <= v[1] /\ v[1] <= 100 * v[2]

\* The condition of C6 on one axis: `before` the path-space coordinates,
\* `after` the normalized ones.
AxisNormalized(before, after) ==
  /\ (\E j, k \in 1..Len(before) : RLess(before[j], before[k]))
       => \A k \in 1..Len(before) :
            /\ InRange(after[k])
            /\ (\A j \in 1..Len(before) : ~RLess(before[j], before[k]))
                 => after[k] = <<0, 1>>
            /\ (\A j \in 1..Len(before) : ~RLess(before[k], before[j]))
                 => after[k] = <<100, 1>>
  /\ (\A j, k \in 1..Len(before) : RSame(before[j], before[k]))
       => \A k \in 1..Len(before) : after[k] = <<50, 1>>

Normalized == PolygonCall /\ pc \in {"emit", "returned"}

\* C6: once the interpreter has succeeded and the points are normalized, on
\* each axis: with a positive extent every normalized coordinate lies in
\* [0, 100], the minimum is at exactly 0 and the maximum at exactly 100;
\* with a zero extent every coordinate is exactly 50.
C6_NormalizedBox ==
  Normalized
    => /\ Len(points) = Len(absolutePoints)
       /\ AxisNormalized(Xs(absolutePoints), Xs(points))
       /\ AxisNormalized(Ys(absolutePoints), Ys(points))

NoPointsExtracted ==
  "Failed to convert path to polygon: No points extracted from path"

\* The token loop of the interpreter has ended without an error.
InterpreterEnds == PolygonCall /\ pc = "command" /\ i >= Len(tokens)

Percent(r) == NumberToString(r) \o "%"

RECURSIVE PairsUpTo(_, _)
\* The first n points as "x% y%" pairs, in order.
PairsUpTo(pts, n) ==
  IF n = 1
    THEN Percent(pts[1].x) \o " " \o Percent(pts[1].y)
    ELSE PairsUpTo(pts, n - 1) \o ", "
           \o Percent(pts[n].x) \o " " \o Percent(pts[n].y)

\* The points after a step are the interpreter's points, one pair each and
\* in their order, and they are at least 3.
ListsEveryPoint ==
  /\ Len(absolutePoints') >= 3
  /\ Len(points') = Len(absolutePoints')
  /\ \A j, k \in 1..Len(points') :
       /\ StrictlyLess(absolutePoints'[j].x, absolutePoints'[k].x)
            => ~StrictlyLess(points'[k].x, points'[j].x)
       /\ StrictlyLess(absolutePoints'[j].y, absolutePoints'[k].y)
            => ~StrictlyLess(points'[k].y, points'[j].y)
  /\ result' = "clip-path: polygon(" \o PairsUpTo(points', Len(points')) \o ");"

\* C7 as stated: the interpreter ending with fewer than 3 points, zero
\* included, makes toPolygon throw the insufficient-points error; a polygon
\* returned lists at least 3 pairs, one per point, in traversal order.
C7_FewPointsInsufficient ==
  [][/\ (InterpreterEnds /\ absolutePoints = <<>>)
          => (pc' = "thrown" /\ error' = InsufficientPoints)
     /\ (PolygonCall /\ pc = "emit" /\ Len(absolutePoints) < 3)
          => (pc' = "thrown" /\ error' = InsufficientPoints)
     /\ (PolygonCall /\ pc' = "returned") => ListsEveryPoint]_vars

\* C7 amended: with 1 or 2 points toPolygon throws the insufficient-points
\* error, with no point at all it throws the no-points error; a polygon
\* returned lists at least 3 pairs, one per point, in traversal order.
C7_FewPointsFail ==
  [][/\ (InterpreterEnds /\ absolutePoints = <<>>)
          => (pc' = "thrown" /\ error' = NoPointsExtracted /\ result' = "")
     /\ (PolygonCall /\ pc = "emit" /\ Len(absolutePoints) < 3)
          => (pc' = "thrown" /\ error' = InsufficientPoints /\ result' = "")
     /\ (PolygonCall /\ pc' = "returned") => ListsEveryPoint]_vars

\* A path of commands that leaves no point.
C7_Witness ==
  /\ PolygonCall
  /\ pc = "thrown"
  /\ tokens # <<>>
  /\ i >= Len(tokens)
  /\ absolutePoints = <<>>
  /\ error = NoPointsExtracted

\* How the call in this state ended.
Outcome ==
  [status |-> pc, value |-> IF pc = "returned" THEN result ELSE error]

\* C8: the presets give (4, 8), (8, 16) and (16, 32); an option left out
\* gives curveSegments 8, arcSegments 16; and a call with no options ends
\* as the call with the medium preset does.
C8_PresetsAndDefaults ==
  (PolygonCall /\ pc \notin {"call"} /\ cleanPath # <<>>)
    => /\ options = qualityMap["low"] => (curveSegments = 4 /\ arcSegments = 8)
       /\ options = qualityMap["medium"] => (curveSegments = 8 /\ arcSegments = 16)
       /\ options = qualityMap["high"] => (curveSegments = 16 /\ arcSegments = 32)
       /\ "curveSegments" \notin DOMAIN options => curveSegments = 8
       /\ "arcSegments" \notin DOMAIN options => arcSegments = 16
       /\ "curveSegments" \in DOMAIN options => curveSegments = options.curveSegments
       /\ "arcSegments" \in DOMAIN options => arcSegments = options.arcSegments
       /\ (Terminated /\ options = NoOptions)
            => Outcome = convertSvgPathToPolygon(
                           rawPath, [curveSegments |-> 8, arcSegments |-> 16])

\* A curve flattened with no options: 8 segments, and not what 4 give.
C8_Witness ==
  /\ PolygonCall
  /\ options = NoOptions
  /\ pc = "returned"
  /\ curveSegments = 8
  /\ arcSegments = 16
  /\ result # convertSvgPathToPolygon(rawPath, qualityMap["low"]).value

TokenizerCall == fn = "tokenizePath"

SpecSeparators == {" ", "\t", "\n", "\r", ","}

\* Separator runs put in the place of the runs of a text.
SeparatorRuns == {<<" ">>, <<",">>, <<"\t", "\n">>, <<",", " ", "\r">>}

RECURSIVE SkipRun(_)
SkipRun(text) ==
  IF text # <<>> /\ Head(text) \in SpecSeparators THEN SkipRun(Tail(text)) ELSE text

RECURSIVE ReplaceRuns(_, _)
\* The text with each of its maximal separator runs replaced by `run`.
ReplaceRuns(text, run) ==
  IF text = <<>> THEN <<>>
  ELSE IF Head(text) \in SpecSeparators
    THEN run \o ReplaceRuns(SkipRun(text), run)
    ELSE <<Head(text)>> \o ReplaceRuns(Tail(text), run)

RECURSIVE SplitAtSigns(_, _)
\* The text with a space put before every sign that follows a digit or a
\* decimal point; `last` is the character before the text.
SplitAtSigns(text, last) ==
  IF text = <<>> THEN <<>>
  ELSE IF Head(text) \in {"+", "-"}
            /\ last \in {"0", "1", "2", "3", "4", "5", "6", "7", "8", "9", "."}
    THEN <<" ", Head(text)>> \o SplitAtSigns(Tail(text), Head(text))
    ELSE <<Head(text)>> \o SplitAtSigns(Tail(text), Head(text))

\* The tokenizer ends on `text` as it ended in this state.
SameTokens(text) ==
  /\ tokenizePath(text).status = pc
  /\ pc = "returned" => tokenizePath(text).value = tokens

Cmd(letter) == [type |-> "command", value |-> letter]

Num(n) == [type |-> "number", value |-> <<n, 1>>]

SquareTokens ==
  <<Cmd("M"), Num(10), Num(10), Cmd("L"), Num(90), Num(10), Cmd("L"), Num(90),
    Num(90), Cmd("L"), Num(10), Num(90), Cmd("Z")>>

\* C9: the tokenizer discards separators and takes any of them for any
\* other, needs none between a command letter and a number or between two
\* numbers, and ends a number at a sign that follows its digits: it gives
\* the same tokens for a text with its separator runs replaced by any
\* other run and for a text with a space put before each such sign;
\* "-10-5" gives -10, -5; "M10-10" gives M, 10, -10; the square path gives
\* M,10,10,L,90,10,L,90,90,L,10,90,Z with and without its separators.
C9_SeparatorsInterchangeable ==
  (TokenizerCall /\ Terminated)
    => /\ \A run \in SeparatorRuns : SameTokens(ReplaceRuns(rawPath, run))
       /\ SameTokens(SplitAtSigns(rawPath, ""))
       /\ rawPath = TwoNegativesText
            => (pc = "returned" /\ tokens = <<Num(-10), Num(-5)>>)
       /\ rawPath = SignSeparatedPath
            => (pc = "returned" /\ tokens = <<Cmd("M"), Num(10), Num(-10)>>)
       /\ rawPath \in {CompactSquarePath, SquarePath}
            => (pc = "returned" /\ tokens = SquareTokens)

\* Commas between the operands of a command, tokenized.
C9_Witness ==
  /\ TokenizerCall
  /\ pc = "returned"
  /\ rawPath = CompactSquarePath
  /\ tokens = SquareTokens

\* The literals the specification calls invalid.
BadLiteral(numStr) ==
  \/ numStr \in {<<"+">>, <<"-">>, <<".">>, <<"+", ".">>, <<"-", ".">>}
  \/ (numStr # <<>> /\ numStr[Len(numStr)] \in {"e", "E"})

\* The tokenizer is at the first character of a literal it will read as bad.
AtBadLiteral ==
  /\ pc = "tokenize"
  /\ tokI < Len(cleanPath)
  /\ cleanPath[tokI + 1] \in {"+", "-", ".", "0", "1", "2", "3", "4", "5", "6", "7", "8", "9"}
  /\ BadLiteral(ReadLiteral(cleanPath, tokI).numStr)

\* C10: when the literal the tokenizer reads is a bare sign, a bare ".", a
\* sign followed only by ".", or ends in e or E, the tokenizer throws an
\* error and the call gives no tokens and no result.
C10_BadLiteralThrows ==
  [][AtBadLiteral => (pc' = "thrown" /\ error' # "" /\ result' = "")]_vars

\* The tokenizer alone, thrown on a literal ending in the exponent marker.
C10_Witness ==
  /\ TokenizerCall
  /\ pc = "thrown"
  /\ rawPath = <<"L", "1", " ", "2", "e">>
  /\ error = "Invalid number format: \"2e\""

NonBlank(text) == \E k \in 1..Len(text) : text[k] \notin {" ", "\t", "\n", "\r"}

\* C4: for a non-blank path, convertPath stores what each conversion gave
\* whatever the other one did: the path() output is stored exactly when the
\* trimmed path holds a command letter, even beside a polygon error, and
\* otherwise the path error is stored; and the polygon conversion always
\* leaves either its output or its error, even beside a path error.
C4_ConversionsIndependent ==
  NonBlank(svgPath)
    => /\ IF HasCommandLetter(svgPath)
            THEN /\ clipPathPath = "clip-path: path('" \o Join(Trim(svgPath)) \o "');"
                 /\ pathError = ""
            ELSE /\ clipPathPath = ""
                 /\ pathError # ""
       /\ (clipPathPolygon = "") # (polygonError = "")

\* The path() output shown beside a polygon error.
C4_Witness ==
  /\ svgPath = MovePath
  /\ clipPathPath = "clip-path: path('M1 1L9 0L9 9');"
  /\ pathError = ""
  /\ clipPathPolygon = ""
  /\ polygonError # ""

\* A literal whose exponent marker is followed by a sign and no digit.
SignOnlyExponent(numStr) ==
  /\ Len(numStr) >= 2
  /\ numStr[Len(numStr)] \in {"+", "-"}
  /\ numStr[Len(numStr) - 1] \in {"e", "E"}

\* The tokenizer is at the first character of such a literal.
AtSignOnlyExponent ==
  /\ pc = "tokenize"
  /\ tokI < Len(cleanPath)
  /\ cleanPath[tokI + 1] \in NumberStart
  /\ SignOnlyExponent(ReadLiteral(cleanPath, tokI).numStr)

\* C11: a literal whose exponent marker is followed by a sign but by no
\* digit ("1e-", "2E+") is not accepted as a number: the tokenizer step that
\* reads it throws and pushes no token.
C11_SignOnlyExponentThrows ==
  [][AtSignOnlyExponent => (pc' = "thrown" /\ tokens' = tokens)]_vars

\* The text is digits followed by one decimal point and nothing else.
EndsInPoint(text) ==
  /\ Len(text) >= 2
  /\ text[Len(text)] = "."
  /\ \A k \in 1..(Len(text) - 1) : text[k] \in Digits

\* C12: the tokenizer takes "-.5e-3" for one Number token of value -0.0005
\* (-1/2000), takes digits with a trailing decimal point ("1.") for one
\* Number token equal to the integer the digits write, and throws on "."
\* alone.
C12_FractionExponentTrailingPoint ==
  (TokenizerCall /\ Terminated)
    => /\ rawPath = SmallExponentText
            => (pc = "returned" /\ tokens = <<[type |-> "number", value |-> <<-1, 2000>>]>>)
       /\ EndsInPoint(rawPath)
            => /\ pc = "returned"
               /\ tokens = <<Num(DigitsValue(SubSeq(rawPath, 1, Len(rawPath) - 1)))>>
       /\ rawPath = <<".">>
            => (pc = "thrown" /\ error = "Invalid number format: \".\"" /\ tokens = <<>>)

\* "-.5e-3" tokenized to the one number -1/2000.
C12_Witness ==
  /\ TokenizerCall
  /\ pc = "returned"
  /\ rawPath = SmallExponentText
  /\ Len(tokens) = 1
  /\ tokens[1].value = <<-1, 2000>>

\* "1." tokenized to the one number 1.
C12_WitnessTrailingPoint ==
  /\ TokenizerCall
  /\ pc = "returned"
  /\ rawPath = TrailingPointText
  /\ tokens = <<Num(1)>>

\* The characters that start a number, as the specification lists them.
SpecNumberStart == {"0", "1", "2", "3", "4", "5", "6", "7", "8", "9", "+", "-", "."}

\* The tokenizer, under toPolygon, is at a character that is no separator,
\* no command letter and no start of a number.
AtUnknownCharacter ==
  /\ PolygonCall
  /\ pc = "tokenize"
  /\ tokI < Len(cleanPath)
  /\ cleanPath[tokI + 1] \notin SpecSeparators \cup SpecCommandLetters \cup SpecNumberStart

\* C13: when the tokenizer meets a character that is no separator, no
\* command letter and no start of a number, toPolygon throws an error that
\* names the character and its index in the text being tokenized, and
\* returns nothing; "M 10 X 20" ends thrown with the error naming X at
\* index 5, with no result.
C13_UnknownCharacterNamed ==
  /\ [][AtUnknownCharacter
          => /\ pc' = "thrown"
             /\ result' = ""
             /\ error' = "Failed to convert path to polygon: Unexpected character \""
                           \o cleanPath[tokI + 1] \o "\" at position " \o ToString(tokI)]_vars
  /\ []((PolygonCall /\ rawPath = UnknownLetterPath /\ Terminated)
          => /\ pc = "thrown"
             /\ result = ""
             /\ error = "Failed to convert path to polygon: Unexpected character \"X\" at position 5")

\* "M 10 X 20" thrown at X.
C13_Witness ==
  /\ PolygonCall
  /\ rawPath = UnknownLetterPath
  /\ pc = "thrown"
  /\ tokI = 5
  /\ cleanPath[tokI + 1] = "X"
  /\ error = "Failed to convert path to polygon: Unexpected character \"X\" at position 5"

\* The error tokenizePath throws on the text moved one index to the right.
ShiftedError(text) == tokenizePath(<<" ">> \o text).value

\* C14: the error thrown for a malformed literal (a bare sign, a bare ".",
\* a literal ending in e or E) carries the literal's text and its index in
\* the input, as the error for an unrecognized character does: the same
\* literal met one index further gives another error.
C14_BadLiteralErrorHasIndex ==
  [][(TokenizerCall /\ AtBadLiteral)
       => /\ pc' = "thrown"
          /\ error' # ShiftedError(cleanPath)]_vars

\* The same test on the error for an unrecognized character, which does
\* change with the index.
UnknownCharacterErrorHasIndex ==
  [][(TokenizerCall /\ pc = "tokenize" /\ tokI < Len(cleanPath)
        /\ cleanPath[tokI + 1] \notin SpecSeparators \cup SpecCommandLetters \cup SpecNumberStart)
       => /\ pc' = "thrown"
          /\ error' # ShiftedError(cleanPath)]_vars

CurveCommands == {"C", "c", "S", "s", "Q", "q", "T", "t"}

\* A pass of the do-loop runs a curve command to its end.
CurveGroupExecuted ==
  /\ pc = "group"
  /\ command \in CurveCommands
  /\ pc' # "thrown"

\* The number of operands of a curve command.
CurveArity ==
  CASE command \in {"C", "c"} -> 6
    [] command \in {"S", "s", "Q", "q"} -> 4
    [] OTHER -> 2

\* Operand k of the group about to run, as written.
Operand(k) == tokens[i + k].value

\* An operand pair as a point, offset by the cursor for a lower-case command.
OperandPoint(k) ==
  IF command \in {"c", "s", "q", "t"}
    THEN Point(RAdd(currentX, Operand(k)), RAdd(currentY, Operand(k + 1)))
    ELSE Point(Operand(k), Operand(k + 1))

Cursor == Point(currentX, currentY)

\* The end point of the curve: the last operand pair.
CurveEnd == OperandPoint(CurveArity - 1)

\* The control point S/s and T/t supply: the last control point mirrored in
\* the cursor when the command before was of the same family, else the cursor.
MirroredControl(family) ==
  IF lastCommand \in family
    THEN Point(RSub(RAdd(currentX, currentX), lastControlX),
               RSub(RAdd(currentY, currentY), lastControlY))
    ELSE Cursor

\* The control polygon of the curve, from the cursor to the end point.
ControlPolygon ==
  CASE command \in {"C", "c"} -> <<Cursor, OperandPoint(1), OperandPoint(3), CurveEnd>>
    [] command \in {"S", "s"} ->
         <<Cursor, MirroredControl({"C", "c", "S", "s"}), OperandPoint(1), CurveEnd>>
    [] command \in {"Q", "q"} -> <<Cursor, OperandPoint(1), CurveEnd>>
    [] OTHER -> <<Cursor, MirroredControl({"Q", "q", "T", "t"}), CurveEnd>>

\* The point at ratio t of the segment from a to b.
Between(a, b, t) ==
  Point(RAdd(RMul(RSub(RInt(1), t), a.x), RMul(t, b.x)),
        RAdd(RMul(RSub(RInt(1), t), a.y), RMul(t, b.y)))

RECURSIVE CurvePoint(_, _)
\* The point at ratio t of the Bezier curve on a control polygon, by
\* repeated subdivision of the polygon's sides (de Casteljau).
CurvePoint(polygon, t) ==
  IF Len(polygon) = 1 THEN polygon[1]
  ELSE CurvePoint([k \in 1..(Len(polygon) - 1) |-> Between(polygon[k], polygon[k + 1], t)], t)

\* The pass appended exactly curveSegments points, point k being the curve
\* at ratio k / curveSegments, and the last one is the end point.
FlattenedInSegments(polygon, end) ==
  /\ Len(absolutePoints') = Len(absolutePoints) + curveSegments
  /\ SubSeq(absolutePoints', 1, Len(absolutePoints)) = absolutePoints
  /\ \A k \in 1..curveSegments :
       absolutePoints'[Len(absolutePoints) + k] = CurvePoint(polygon, Rat(k, curveSegments))
  /\ curveSegments > 0 => absolutePoints'[Len(absolutePoints')] = end

\* C15 as stated: every executed curve group (C, c, S, s, Q, q, T, t) emits
\* exactly curveSegments points, the curve at t = k / curveSegments for
\* k = 1..curveSegments, so not the start point, and the last emitted point
\* is the curve's end point exactly.
C15_CurveGroupsEmitSegments ==
  [][CurveGroupExecuted => FlattenedInSegments(ControlPolygon, CurveEnd)]_vars

\* The cursor, the last control point and the operands of the group are
\* all finite numbers.
FiniteCurve ==
  /\ \A r \in {currentX, currentY, lastControlX, lastControlY} : IsFinite(r)
  /\ \A k \in 1..CurveArity : IsFinite(Operand(k))

\* The same of the groups whose cursor, control points and operands are
\* finite: this much holds, whatever curveSegments is (4, 8 or 16).
FiniteCurveGroupsEmitSegments ==
  [][(CurveGroupExecuted /\ FiniteCurve)
       => FlattenedInSegments(ControlPolygon, CurveEnd)]_vars

\* A cubic flattened in 16 segments after one line: 17 points, the last one
\* the end point (8, 8) and the cursor.
FiniteCurveFlattened ==
  /\ PolygonCall
  /\ rawPath = <<"L", "9", " ", "0", "C", "0", " ", "4", " ", "4", " ", "8", " ", "8", " ", "8">>
  /\ curveSegments = 16
  /\ lastCommand = "C"
  /\ Len(absolutePoints) = 17
  /\ absolutePoints[17] = Point(RInt(8), RInt(8))
  /\ currentX = RInt(8)
  /\ currentY = RInt(8)

\* A pass of the do-loop runs an arc command to its end.
ArcGroupExecuted ==
  /\ pc = "group"
  /\ command \in {"A", "a"}
  /\ pc' # "thrown"

\* The end point of the arc: the last operand pair.
ArcEnd ==
  IF command = "a"
    THEN Point(RAdd(currentX, Operand(6)), RAdd(currentY, Operand(7)))
    ELSE Point(Operand(6), Operand(7))

\* The points the pass appended.
Emitted == SubSeq(absolutePoints', Len(absolutePoints) + 1, Len(absolutePoints'))

\* C16: every executed arc group (A, a) with both radii non-zero emits
\* exactly arcSegments points, the last one the arc's end point and none the
\* start point; with rx = 0 or ry = 0 it emits exactly one point, the end
\* point; in both cases the cursor is the end point afterwards.
C16_ArcGroupsEndAtEndPoint ==
  [][ArcGroupExecuted
       => /\ SubSeq(absolutePoints', 1, Len(absolutePoints)) = absolutePoints
          /\ Point(currentX', currentY') = ArcEnd
          /\ IF Operand(1) # Zero /\ Operand(2) # Zero
               THEN /\ Len(Emitted) = arcSegments
                    /\ Emitted[arcSegments] = ArcEnd
                    /\ \A k \in 1..arcSegments : Emitted[k] # Cursor
               ELSE Emitted = <<ArcEnd>>]_vars

\* What every executed arc group does, the arc's end points equal or not:
\* it emits arcSegments points, or the end point alone when a radius is 0,
\* and leaves the cursor at the end point.
ArcGroupsEmitSegments ==
  [][ArcGroupExecuted
       => /\ Point(currentX', currentY') = ArcEnd
          /\ IF Operand(1) # Zero /\ Operand(2) # Zero
               THEN Len(Emitted) = arcSegments
               ELSE Emitted = <<ArcEnd>>]_vars

RECURSIVE DensityFreeFrom(_, _, _, _)
\* No token from index k on is a curve command or closes the radii of an
\* arc group with both radii non-zero; inArc tells whether the command in
\* force is A or a, and pos counts the operands of its current group.
DensityFreeFrom(toks, k, inArc, pos) ==
  IF k > Len(toks) THEN TRUE
  ELSE IF toks[k].type = "command"
    THEN /\ toks[k].value \notin CurveCommands
         /\ DensityFreeFrom(toks, k + 1, toks[k].value \in {"A", "a"}, 0)
  ELSE IF inArc /\ pos = 1 /\ toks[k - 1].value # Zero /\ toks[k].value # Zero
    THEN FALSE
  ELSE DensityFreeFrom(toks, k + 1, inArc, (pos + 1) % 7)

\* The tokens hold no curve command and no arc with non-zero radii.
DensityFree(toks) == DensityFreeFrom(toks, 1, FALSE, 0)

\* C17: for a path with no curve command and no arc command with non-zero
\* radii the segment counts change nothing: whatever options the call was
\* given, it ends as the call with curveSegments 1 and arcSegments 1 does,
\* with the same string or the same error.
C17_OptionsOnlyDensity ==
  (PolygonCall /\ Terminated /\ DensityFree(tokens))
    => Outcome = convertSvgPathToPolygon(rawPath, [curveSegments |-> 1, arcSegments |-> 1])

\* Lines and a flat arc converted with the high preset: three points.
C17_Witness ==
  /\ PolygonCall
  /\ rawPath = FlatArcPath
  /\ options = qualityMap["high"]
  /\ arcSegments = 32
  /\ pc = "returned"
  /\ DensityFree(tokens)
  /\ Len(points) = 3
  /\ result = "clip-path: polygon(100% 0%, 100% 100%, 0% 100%);"

\* A pass of the do-loop body ran the command's case to its end.
GroupPassed ==
  /\ pc = "group"
  /\ passes' = passes + 1
  /\ pc' # "thrown"

\* The token after the operands the pass consumed is a number.
NumberFollows == i' < Len(tokens) /\ tokens[i' + 1].type = "number"

\* After the pass: the body runs again for the same command exactly when
\* `again`, and otherwise the token loop is back at its head, with no error.
RepeatsExactlyWhen(again) ==
  /\ (pc' = "group") = again
  /\ pc' = "group" => command' = command
  /\ pc' # "group" => (pc' = "command" /\ error' = "")

\* C18: after a command group has consumed its operands the same command
\* runs again if and only if the next token is a number, and never for Z or
\* z; when a command follows or the tokens have ended the group ends without
\* error and the interpreter goes on with the next command token.  For every
\* command letter, M and m included.
C18_RepeatsIffNumberFollows ==
  [][GroupPassed => RepeatsExactlyWhen(NumberFollows /\ command \notin {"Z", "z"})]_vars

\* The same of the commands other than M, m, Z and z: this much holds.
OperandCommandsRepeatIffNumberFollows ==
  [][(GroupPassed /\ command \notin {"M", "m", "Z", "z"})
       => RepeatsExactlyWhen(NumberFollows)]_vars

\* A pass of the do-loop ran case 'M' or case 'm' to its end.
MovePassed == GroupPassed /\ command \in {"M", "m"}

\* The pair the pass read, offset by the cursor for m.
MoveTarget ==
  IF command = "m"
    THEN Point(RAdd(currentX, Operand(1)), RAdd(currentY, Operand(2)))
    ELSE Point(Operand(1), Operand(2))

SubpathStart == Point(subpathStartX, subpathStartY)

\* The pass moved the cursor to the pair, emitted that one point, and set
\* subpath-start to it if the pair is the first of its group, left it
\* otherwise.
PairTaken ==
  /\ Point(currentX', currentY') = MoveTarget
  /\ absolutePoints' = Append(absolutePoints, MoveTarget)
  /\ Point(subpathStartX', subpathStartY') = IF isFirstCoordSet THEN MoveTarget ELSE SubpathStart

\* C19: in an M/m group of two or more pairs only the first pair sets
\* subpath-start; each later pair is a line-to (absolute after M, relative
\* to the cursor after m) that moves the cursor, emits one point and leaves
\* subpath-start alone, so that a later Z/z returns to the first pair's
\* point: "m1 1 2 6 4 0z" is interpreted to (1,1), (3,7), (7,7), (1,1).
C19_MoveGroupLineTos ==
  /\ [][MovePassed => PairTaken]_vars
  /\ []((PolygonCall /\ Terminated /\ rawPath = MoveGroupClosePath)
          => /\ pc = "returned"
             /\ absolutePoints = <<Point(RInt(1), RInt(1)), Point(RInt(3), RInt(7)),
                                   Point(RInt(7), RInt(7)), Point(RInt(1), RInt(1))>>)

\* What each pass of an M/m group does with its pair: this much holds.
MovePairsTaken == [][MovePassed => PairTaken]_vars

\* The second pair of a group taken as a line-to, subpath-start left at the first.
LaterPairTaken ==
  /\ PolygonCall
  /\ rawPath = MoveGroupClosePath
  /\ pc = "group"
  /\ command = "m"
  /\ absolutePoints = <<Point(RInt(1), RInt(1)), Point(RInt(3), RInt(7))>>
  /\ SubpathStart = Point(RInt(1), RInt(1))
  /\ Cursor = Point(RInt(3), RInt(7))

\* The next token to read is a number.
NumberIsNext == i < Len(tokens) /\ tokens[i + 1].type = "number"

\* The token loop is at its head, where a command is read.
AtLoopHead == PolygonCall /\ pc = "command"

\* A pass of the do-loop has just run Z or z.
AfterClose ==
  /\ PolygonCall
  /\ pc = "group"
  /\ command \in {"Z", "z"}
  /\ ~isFirstCoordSet

\* The step throws an error, and the call gives no result.
FailsReportingNumber ==
  /\ pc' = "thrown"
  /\ error' # ""
  /\ result' = ""

\* C20: whenever a number token stands where the interpreter expects a
\* command token, at the head of the token loop (the first token of the path
\* among them) or directly after a Z/z command, the interpretation fails with
\* an error reporting the number: the input is not accepted and is not
\* processed without a result.
C20_NumberForCommandFails ==
  [][((AtLoopHead \/ AfterClose) /\ NumberIsNext) => FailsReportingNumber]_vars

\* The same at the head of the token loop alone, where it holds: the error
\* names the number's token index.
NumberAtLoopHeadFails ==
  [][(AtLoopHead /\ NumberIsNext)
       => /\ FailsReportingNumber
          /\ error' = "Failed to convert path to polygon: Expected command, got number at token "
                        \o ToString(i)]_vars

\* A path whose first token is a number, thrown at token 0.
NumberAtLoopHeadFailed ==
  /\ PolygonCall
  /\ rawPath = <<"0", "L">>
  /\ pc = "thrown"
  /\ i = 0
  /\ error = "Failed to convert path to polygon: Expected command, got number at token 0"

\* A pass of the do-loop ran case 'Z' / 'z' to its end.
ClosePassed == GroupPassed /\ command \in {"Z", "z"}

LastControl == Point(lastControlX, lastControlY)

SamplesOf(polygon) ==
  /\ Len(Emitted) = curveSegments
  /\ \A k \in 1..curveSegments : Emitted[k] = CurvePoint(polygon, Rat(k, curveSegments))

\* What a pass of a curve command records and, for S/s and T/t, the first
\* control point it draws with: `first` for S/s, `control` for T/t.
ControlsRecorded(first, control) ==
  CASE command \in {"C", "c"} -> Point(lastControlX', lastControlY') = OperandPoint(3)
    [] command \in {"Q", "q"} -> Point(lastControlX', lastControlY') = OperandPoint(1)
    [] command \in {"S", "s"} ->
         /\ Point(lastControlX', lastControlY') = OperandPoint(1)
         /\ FiniteCurve => SamplesOf(<<Cursor, first, OperandPoint(1), CurveEnd>>)
    [] OTHER ->
         /\ Point(lastControlX', lastControlY') = control
         /\ FiniteCurve => SamplesOf(<<Cursor, control, CurveEnd>>)

\* The last control point mirrored in the cursor: 2 * cursor - lastControl.
Mirrored ==
  Point(RSub(RAdd(currentX, currentX), lastControlX),
        RSub(RAdd(currentY, currentY), lastControlY))

\* C22: S/s draws with first control point 2 * cursor - lastControl exactly
\* when the pass before ran C, c, S or s, and with the cursor otherwise;
\* T/t likewise after Q, q, T or t.  Every pass sets lastCommand to its
\* command, repeated passes too; C/c and S/s record their explicit second
\* control point, Q/q their control point and T/t the control point they
\* drew with, so each pass of a repeated S or T mirrors the control point of
\* the pass before it.
C22_SmoothControlsReflect ==
  /\ [][GroupPassed => lastCommand' = command]_vars
  /\ [][(GroupPassed /\ command \in CurveCommands)
          => ControlsRecorded(
               IF lastCommand \in {"C", "c", "S", "s"} THEN Mirrored ELSE Cursor,
               IF lastCommand \in {"Q", "q", "T", "t"} THEN Mirrored ELSE Cursor)]_vars

\* The second T of "T8 8 0 8" after Q4 0 4 4: the first drew with (4,8),
\* the mirror image of (4,0) in (4,4); the second with (12,8), the mirror
\* image of (4,8) in (8,8).
C22_Witness ==
  /\ PolygonCall
  /\ rawPath = SmoothRunPath
  /\ pc = "command"
  /\ command = "T"
  /\ lastCommand = "T"
  /\ LastControl = Point(RInt(12), RInt(8))
  /\ Cursor = Point(RInt(0), RInt(8))
  /\ Len(absolutePoints) = 3 * curveSegments

\* A pass of the do-loop ran a line command to its end.
LinePassed == GroupPassed /\ command \in {"L", "l", "H", "h", "V", "v"}

\* Where the pass of a line command takes the cursor.
LineTarget ==
  CASE command = "L" -> Point(Operand(1), Operand(2))
    [] command = "l" -> Point(RAdd(currentX, Operand(1)), RAdd(currentY, Operand(2)))
    [] command = "H" -> Point(Operand(1), currentY)
    [] command = "h" -> Point(RAdd(currentX, Operand(1)), currentY)
    [] command = "V" -> Point(currentX, Operand(1))
    [] OTHER -> Point(currentX, RAdd(currentY, Operand(1)))

\* C23: H/h changes only the cursor's x and V/v only its y; every executed
\* pass of L, l, H, h, V or v emits exactly one point, equal to the new
\* cursor, and leaves subpath-start and the last control point unchanged.
C23_LinesMoveCursorOnly ==
  [][LinePassed
       => /\ Point(currentX', currentY') = LineTarget
          /\ command \in {"H", "h"} => currentY' = currentY
          /\ command \in {"V", "v"} => currentX' = currentX
          /\ absolutePoints' = Append(absolutePoints, Point(currentX', currentY'))
          /\ Point(subpathStartX', subpathStartY') = SubpathStart
          /\ Point(lastControlX', lastControlY') = LastControl]_vars

\* "l0 9H3v5" after its H: the cursor went from (0,9) to (3,9).
C23_Witness ==
  /\ PolygonCall
  /\ rawPath = <<"l", "0", " ", "9", "H", "3", "v", "5">>
  /\ pc = "command"
  /\ command = "H"
  /\ Cursor = Point(RInt(3), RInt(9))
  /\ absolutePoints = <<Point(RInt(0), RInt(9)), Point(RInt(3), RInt(9))>>

\* The number of operands of one group of the command in force.
Arity ==
  CASE command \in {"M", "m", "L", "l", "T", "t"} -> 2
    [] command \in {"H", "h", "V", "v"} -> 1
    [] command \in {"C", "c"} -> 6
    [] command \in {"S", "s", "Q", "q"} -> 4
    [] command \in {"A", "a"} -> 7
    [] OTHER -> 0

\* Operand k of the group about to be read is not there: the tokens have
\* ended or a command stands in its place.
MissingAt(k) == i + k > Len(tokens) \/ tokens[i + k].type # "number"

\* The do-loop is about to read a group that lacks an operand.
LacksOperand ==
  /\ PolygonCall
  /\ pc = "group"
  /\ \E k \in 1..Arity : MissingAt(k)

\* The first operand that is missing.
FirstMissing == CHOOSE k \in 1..Arity : MissingAt(k) /\ \A j \in 1..(k - 1) : ~MissingAt(j)

\* C24: when a command group lacks one of its operands (2 for M, m, L, l,
\* T, t; 1 for H, h, V, v; 6 for C, c; 4 for S, s, Q, q; 7 for A, a), a
\* command or the end of the input standing in its place, toPolygon throws
\* an error naming the command letter and the operand being read, and
\* returns no polygon.
C24_MissingOperandNamed ==
  [][LacksOperand
       => /\ pc' = "thrown"
          /\ result' = ""
          /\ error' = "Failed to convert path to polygon: Expected number for "
                        \o command \o " command " \o OperandNames(command)[FirstMissing]]_vars

\* "s4 0 4-4 2 6": the second group of s has two of its four operands, and
\* the call is thrown at its end point's x.
C24_Witness ==
  /\ PolygonCall
  /\ rawPath = <<"s", "4", " ", "0", " ", "4", "-", "4", " ", "2", " ", "6">>
  /\ i = 5
  /\ Len(tokens) = 7
  /\ pc = "thrown"
  /\ command = "s"
  /\ result = ""
  /\ error = "Failed to convert path to polygon: Expected number for s command end x"

LowerCase == {"m", "l", "h", "v", "c", "s", "q", "t", "a", "z"}

\* The upper-case letter of a lower-case command.
UpperOf(letter) ==
  CASE letter = "m" -> "M" [] letter = "l" -> "L" [] letter = "h" -> "H"
    [] letter = "v" -> "V" [] letter = "c" -> "C" [] letter = "s" -> "S"
    [] letter = "q" -> "Q" [] letter = "t" -> "T" [] letter = "a" -> "A"
    [] OTHER -> "Z"

\* Operand k of the command in force, offset by the cursor where it is a
\* coordinate: x and y alternate in the pairs of m, l, c, s, q, t; h has an
\* x and v a y; of a's seven operands the last two are the end point.
OffsetOperand(k) ==
  IF command = "a"
    THEN (IF k = 6 THEN RAdd(currentX, Operand(k))
          ELSE IF k = 7 THEN RAdd(currentY, Operand(k)) ELSE Operand(k))
  ELSE IF command = "h" \/ (command # "v" /\ k % 2 = 1)
    THEN RAdd(currentX, Operand(k))
    ELSE RAdd(currentY, Operand(k))

\* The locals after the case of the upper-case command, run from this state
\* on the offset operands.
AbsoluteTwin ==
  Dispatch([Locals EXCEPT !.command = UpperOf(command), !.i = i + Arity],
           [k \in 1..Arity |-> OffsetOperand(k)], curveSegments, arcSegments)

\* C25: a lower-case command is the upper-case command with every
\* coordinate pair, control points and end point alike, offset by the cursor
\* held before the pass (h by its x, v by its y): run on the offset operands
\* the upper-case command emits the same points and leaves the same cursor,
\* subpath-start and last control point.
C25_RelativeIsOffsetAbsolute ==
  [][(GroupPassed /\ command \in LowerCase)
       => /\ absolutePoints' = AbsoluteTwin.absolutePoints
          /\ Point(currentX', currentY') = Point(AbsoluteTwin.currentX, AbsoluteTwin.currentY)
          /\ Point(subpathStartX', subpathStartY')
               = Point(AbsoluteTwin.subpathStartX, AbsoluteTwin.subpathStartY)
          /\ Point(lastControlX', lastControlY')
               = Point(AbsoluteTwin.lastControlX, AbsoluteTwin.lastControlY)
          /\ i' = AbsoluteTwin.i]_vars

\* "L2 1c0 4 4 8 8 8q4 0 4-4h2" after its q: from (10,9) the control point
\* (4,0) was taken for (14,9) and the end point (4,-4) for (14,5).
C25_Witness ==
  /\ PolygonCall
  /\ rawPath = RelativeCurvesPath
  /\ pc = "command"
  /\ command = "q"
  /\ LastControl = Point(RInt(14), RInt(9))
  /\ Cursor = Point(RInt(14), RInt(5))
  /\ Len(absolutePoints) = 1 + 2 * curveSegments

\* The stored polygon output and error are what the polygon conversion of
\* `path` with the preset `quality` gives.
PolygonShown(path, quality) ==
  /\ clipPathPolygon' = IF convertSvgPathToPolygon(path, qualityMap[quality]).status = "returned"
                          THEN convertSvgPathToPolygon(path, qualityMap[quality]).value ELSE ""
  /\ polygonError' = IF convertSvgPathToPolygon(path, qualityMap[quality]).status = "thrown"
                       THEN convertSvgPathToPolygon(path, qualityMap[quality]).value ELSE ""

\* C26: a quality change with a non-blank current path leaves the path,
\* the path() output and the path error as they were and stores the polygon
\* conversion of the path with the newly selected preset; with a blank
\* current path it changes the stored quality and none of the four output
\* and error fields.
C26_QualityChangeRecomputesPolygon ==
  [][polygonQuality' # polygonQuality
       => /\ svgPath' = svgPath
          /\ clipPathPath' = clipPathPath
          /\ pathError' = pathError
          /\ IF NonBlank(svgPath)
               THEN PolygonShown(svgPath, polygonQuality')
               ELSE clipPathPolygon' = clipPathPolygon /\ polygonError' = polygonError]_vars

\* The curve path shown at the low preset, which is not what the medium
\* preset gives.
C26_Witness ==
  /\ svgPath = CurvePath
  /\ polygonQuality = "low"
  /\ reads = <<>>
  /\ clipPathPath = "clip-path: path('L8 0Q8 8 0 8');"
  /\ clipPathPolygon = convertSvgPathToPolygon(CurvePath, qualityMap["low"]).value
  /\ clipPathPolygon # convertSvgPathToPolygon(CurvePath, qualityMap["medium"]).value

\* No file read is in flight and no handler is running.
Settled == reads = <<>> /\ ~frozen

\* C27: after any sequence of text edits, quality changes and file uploads,
\* once every handler has finished, the stored polygon output is the
\* polygon conversion of the current svgPath at the currently selected
\* quality, or is empty beside its error when that conversion fails: a file
\* read that completes after a quality change leaves no polygon computed
\* with the earlier quality.
C27_PolygonMatchesQuality ==
  (Settled /\ NonBlank(svgPath))
    => /\ clipPathPolygon
            = IF convertSvgPathToPolygon(svgPath, qualityMap[polygonQuality]).status = "returned"
                THEN convertSvgPathToPolygon(svgPath, qualityMap[polygonQuality]).value ELSE ""
       /\ polygonError
            = IF convertSvgPathToPolygon(svgPath, qualityMap[polygonQuality]).status = "thrown"
                THEN convertSvgPathToPolygon(svgPath, qualityMap[polygonQuality]).value ELSE ""

\* C28: after every call of convertPath, for a blank input the path()
\* output, the polygon output and both errors are empty; for a non-blank
\* input exactly one of the path() output and the path error is non-empty
\* and exactly one of the polygon output and the polygon error is: no
\* format shows an output beside an error, or the output of an earlier
\* input.
C28_OutputOrErrorPerFormat ==
  IF NonBlank(svgPath)
    THEN /\ (clipPathPath # "") # (pathError # "")
         /\ (clipPathPolygon # "") # (polygonError # "")
         /\ clipPathPath # "" => clipPathPath = convertSvgPathToClipPath(svgPath).value
    ELSE /\ clipPathPath = ""
         /\ clipPathPolygon = ""
         /\ pathError = ""
         /\ polygonError = ""

\* A text with no command letter: both formats show their error and no
\* output.
C28_Witness ==
  /\ svgPath = NoCommandText
  /\ clipPathPath = ""
  /\ pathError = "Invalid SVG path format"
  /\ clipPathPolygon = ""
  /\ polygonError = "Invalid SVG path format"

\* C29: for every input, when the polygon conversion succeeds the path()
\* conversion succeeds on the same input; hence ConverterSection never
\* holds a polygon output beside an empty path() output.
C29_PolygonImpliesClipPath ==
  /\ (PolygonCall /\ pc = "returned")
       => convertSvgPathToClipPath(rawPath).status = "returned"
  /\ clipPathPolygon # "" => clipPathPath # ""

\* A polygon conversion that returned, on a text the path() conversion
\* wraps as it is.
C29_Witness ==
  /\ PolygonCall
  /\ pc = "returned"
  /\ rawPath = OpenSquarePath
  /\ result # ""
  /\ convertSvgPathToClipPath(rawPath) = Returned(PathDeclaration(OpenSquarePath))

\* ConverterSection showing both outputs of one text.
PolygonShownBesidePath ==
  /\ clipPathPolygon # ""
  /\ clipPathPath = PathDeclaration(Trim(svgPath))

\* The characters a number literal is made of.
SpecLiteralChars ==
  {"0", "1", "2", "3", "4", "5", "6", "7", "8", "9", "+", "-", ".", "e", "E"}

\* The characters one iteration of the tokenizer's loop steps over.
SteppedOver == SubSeq(cleanPath, tokI + 1, tokI')

IsCommandLetter(c) == c \in SpecCommandLetters

IsCommandToken(token) == token.type = "command"

\* The iteration discarded one separator.
SeparatorDiscarded ==
  /\ Len(SteppedOver) = 1
  /\ SteppedOver[1] \in SpecSeparators
  /\ tokens' = tokens

\* The iteration turned one command letter into one Command token.
LetterBecameCommand ==
  /\ Len(SteppedOver) = 1
  /\ SteppedOver[1] \in SpecCommandLetters
  /\ tokens' = Append(tokens, [type |-> "command", value |-> SteppedOver[1]])

\* The iteration turned a run of literal characters into one Number token.
LiteralBecameNumber ==
  /\ \A k \in 1..Len(SteppedOver) : SteppedOver[k] \in SpecLiteralChars
  /\ Len(tokens') = Len(tokens) + 1
  /\ SubSeq(tokens', 1, Len(tokens)) = tokens
  /\ tokens'[Len(tokens')].type = "number"

\* The iteration went on to the next character, having accounted for the
\* ones it stepped over.
MadeProgress ==
  /\ pc' = "tokenize"
  /\ tokI < tokI'
  /\ tokI' <= Len(cleanPath)
  /\ SeparatorDiscarded \/ LetterBecameCommand \/ LiteralBecameNumber

\* The Command tokens are the command letters of the text, in its order.
CommandsInOrder ==
  /\ Len(SelectSeq(tokens, IsCommandToken)) = Len(SelectSeq(cleanPath, IsCommandLetter))
  /\ \A k \in 1..Len(SelectSeq(tokens, IsCommandToken)) :
       SelectSeq(tokens, IsCommandToken)[k].value = SelectSeq(cleanPath, IsCommandLetter)[k]

\* C30: every iteration of the tokenizer's main loop either consumes at
\* least one character or fails with an error, so the index reaches the end
\* of the text after at most as many iterations as it has characters; on
\* success each character was a discarded separator, a command letter that
\* became one Command token, or part of exactly one Number token, and the
\* tokens are in the order of the text.
C30_TokenizerProgress ==
  [][/\ (pc = "tokenize" /\ tokI < Len(cleanPath))
          => \/ pc' = "thrown" /\ error' # ""
             \/ MadeProgress
     /\ (pc = "tokenize" /\ tokI >= Len(cleanPath))
          => tokI = Len(cleanPath) /\ tokens' = tokens /\ CommandsInOrder]_vars

\* tokenizePath returned the seven tokens of a text with every kind of
\* separator, having stepped over each of its characters.
C30_Witness ==
  /\ TokenizerCall
  /\ pc = "returned"
  /\ rawPath = MixedSeparatorPath
  /\ tokI = Len(MixedSeparatorPath)
  /\ Len(tokens) = 7
  /\ CommandsInOrder

====
